---- MODULE Spec2Model ----
(***************************************************************************)
(* Verification model of the Kafka bridge (src/kafka_bridge): the          *)
(* consume -> process -> produce -> commit loop of KafkaBridge.run, the    *)
(* batch assembly of KafkaConsumerWrapper.consume_batch and the retrying   *)
(* HTTP transport behind APIClient.call_batch.                             *)
(*                                                                         *)
(* The specifications share the variables:                                 *)
(*   Spec         the orchestrator: run() driving iter_batches()           *)
(*   SpecLive     the same, with the thread of run() kept running          *)
(*   SpecConsume  consume_batch(n, t) called directly with any arguments   *)
(*   SpecConsumeLive  consume_batch on an endless stream, with a clock     *)
(*   SpecApi      one call_batch after another against an arbitrary server *)
(*   SpecProducer produce, produce_batch and flush of the producer wrapper *)
(*   SpecDlq      produce_to_dlq on a producer wrapper in any state        *)
(*   SpecConfig   KafkaBridge(config) for any configuration                *)
(*   SpecJson     JsonSerializer.serialize followed by deserialize         *)
(*   SpecStrip    MessageSerializer._strip_cutouts applied twice           *)
(*   SpecMetrics  the metric counters under interleaved updates            *)
(*   SpecReadJson the JSON readers of runner.py on any content             *)
(*   SpecIsAvro   is_avro_file of runner.py on any input                   *)
(*   SpecLoad     load_preprocessing of runner.py on any module            *)
(*   SpecBuilds   the build service: build requests, run_build, deletes    *)
(*   SpecProcessor  KafkaProcessor._process_batch on any batch             *)
(*   SpecDeserialize  MessageSerializer.deserialize on any payload         *)
(*   SpecPeriodic the periodic metrics log of run()                        *)
(*   SpecHealth   one health_check after another against an arbitrary      *)
(*                server                                                   *)
(***************************************************************************)
EXTENDS Integers, Sequences, FiniteSets, TLC

(***************************************************************************)
(* Bounds of the model.                                                    *)
(***************************************************************************)
\* messages the inbound topic delivers in all, over its partitions
MaxMessages == 3
\* config.batch_size ranges over 1 .. MaxBatchSize
MaxBatchSize == 2
\* config.batch_timeout_ms, counted in poll sub-timeouts (ticks of 100 ms)
MaxTicks == 2
\* config.api_retry_count ranges over 0 .. MaxRetryCount
MaxRetryCount == 2
\* number of call_batch invocations observed under SpecApi
MaxCalls == 2

\* partitions of the inbound topic
Partitions == {0, 1}

\* Python None passed for an optional integer argument
NoneArg == -1

Messages == [p : Partitions, off : 0 .. (MaxMessages - 1)]

RECURSIVE SumOver(_, _)
SumOver(f, S) ==
    IF S = {} THEN 0
    ELSE LET x == CHOOSE y \in S : TRUE IN f[x] + SumOver(f, S \ {x})

\* messages delivered so far: the fetch positions summed over the partitions
Delivered(position) == SumOver(position, Partitions)

VARIABLES
    \* ---- KafkaBridge / KafkaConsumerWrapper / KafkaProducerWrapper ----
    pc,                 \* position of the main thread
    running,            \* KafkaBridge._running
    cRunning,           \* KafkaConsumerWrapper._running
    batch_size,         \* config.batch_size
    batch_timeout,      \* config.batch_timeout_ms in ticks
    reqSize,            \* consume_batch argument batch_size (NoneArg = None)
    reqTimeout,         \* consume_batch argument timeout_ms (NoneArg = None)
    effSize,            \* consume_batch local batch_size after defaulting
    effTimeout,         \* consume_batch local timeout_ms after defaulting
    elapsed,            \* time spent in the current consume_batch, in ticks
    pos,                \* consumer fetch position per partition
    committed,          \* committed position per partition
    messages,           \* consume_batch local list == the batch yielded
    polled,             \* messages polled by the current consume_batch call
    results,            \* results returned by _process_batch (aligned)
    toCommit,           \* messages returned by _process_batch
    apiRet,             \* value returned by the processing call
    prodIdx,            \* _produce_results loop index (results produced)
    pending,            \* producer queue: messages not yet acknowledged
    flushRemaining,     \* value returned by the last producer.flush
    messages_consumed,  \* metrics
    deserialization_errors,
    api_calls,
    api_errors,
    \* ---- history of the current iteration / call ----
    iterEvents,         \* producer/consumer calls made by this iteration
    iterProduced,       \* envelopes handed to producer.produce
    iterCommit,         \* <<m>> when consumer.commit(m) was called, else <<>>
    iterKeys,           \* the key producer.produce passed on with each envelope
    iterFailed,         \* a delivery failure was recorded since the iteration
                        \* began
    owed,               \* deserialized messages whose output record has not
                        \* been produced and handed to a flush call
    consumed0,          \* metrics at the start of the current call/iteration
    deser0,
    apiErrors0,
    \* ---- life cycle of run() ----
    raised,             \* exception in flight in run() ("none" when there is none)
    consumer,           \* KafkaConsumerWrapper.consumer: "none", "open", "closed"
    producer,           \* KafkaProducerWrapper.producer: "none", "open", "flushed"
    session,            \* APIClient.session: "open", "closed"
    closeLog,           \* the steps of close() taken so far, in order
    \* ---- history of stop() ----
    stopAt,             \* where run() was at the first stop() invoked while
                        \* RUNNING: StopPhase(pc), "none" before that
    cycleAfterStop,     \* a consume_batch was entered after that stop()
    yieldedAfterStop,   \* the batch at hand was yielded after that stop()
    completedAfterStop, \* the iteration that stop() fell into ran to its end
    \* ---- APIClient (SpecApi) ----
    apiPc,              \* position inside call_batch
    api_retry_count,    \* config.api_retry_count
    retryTotal,         \* urllib3 Retry.total of the request in flight
    attempts,           \* HTTP requests sent by the current call
    respLog,            \* responses received by the current call
    callRet,            \* value returned by call_batch
    \* ---- KafkaProducerWrapper (SpecProducer) ----
    pwPc,               \* position of the caller of the producer wrapper
    batchLen,           \* len(messages) of the produce_batch call at hand
    batchLog,           \* outcome of each record attempted by produce_batch
    queued,             \* produce_batch local `queued`
    batchRet,           \* value returned by produce_batch (NoneArg: none yet)
    delivery,           \* per message accepted by the client: "pending",
                        \* "delivered" or "failed"
    messages_produced,  \* metrics["messages_produced"]
    delivery_failures,  \* len(self._delivery_failures)
    lastRec,            \* source record of the bridge-style produce call
                        \* that has just returned
    lastKey,            \* key handed to the client by that call
    \* ---- produce_to_dlq (SpecDlq) ----
    dead_letter_topic,  \* config.dead_letter_topic
    \* ---- KafkaBridge.__init__ (SpecConfig) ----
    config,             \* the BridgeConfig handed to KafkaBridge(config): its
                        \* formats, schema paths and API address
    \* ---- JsonSerializer / MessageSerializer (SpecSerializer) ----
    serPc,              \* position of the caller of the serializer
    record,             \* the record handed to serialize / _strip_cutouts
    wire,               \* the JSON document serialize returned
    restored,           \* what deserialize / _strip_cutouts returned
    skip_cutouts,       \* MessageSerializer.skip_cutouts
    again,              \* what _strip_cutouts returned for its own result
    \* ---- APIClient.health_check (SpecHealth) ----
    healthRet,          \* value returned by the last health_check
    \* ---- BridgeLogger metrics (SpecMetrics) ----
    incr,               \* per execution context: the record_* call in progress
                        \* (keys still to increment, the value read for `+=`)
    recorded,           \* per metric: the increments that have completed
    \* ---- periodic metrics of run() (SpecPeriodic) ----
    lastLogAt,          \* messages_consumed when log_metrics was last called
                        \* by the loop (0: not yet)
    dropped,            \* the batch at hand was dropped by _process_batch
    \* ---- runner.py input readers (SpecReadJson, SpecIsAvro) ----
    content,            \* the text f.read() / sys.stdin.read() returns, as
                        \* its lines, each line the sequence of its tokens
    fromFile,           \* what _read_json_from_file yielded for content
    fromStdin,          \* what _read_json_from_stdin yielded for content
    input,              \* the argument of is_avro_file and the file behind it
    isAvro,             \* what is_avro_file returned
    \* ---- runner.py load_preprocessing (SpecLoad) ----
    preprocessing,      \* the file at PREPROCESSING_PATH and its module
    loaded,             \* what load_preprocessing returned or raised
    \* ---- consume_batch on an endless stream (SpecConsumeLive) ----
    lastPoll,           \* what the last _poll_single of the call came back with
    \* ---- MessageSerializer.deserialize (SpecDeserialize) ----
    serializer,         \* the input MessageSerializer: input_format, whether
                        \* it has an Avro deserializer, skip_cutouts
    payload,            \* msg.value(): what its bytes are as UTF-8 JSON and
                        \* as Avro of the configured schema
    decoded,            \* what deserialize returned, or that it raised
    taken,              \* the data consume_batch put into its batch
    \* ---- KafkaProcessor._process_batch (SpecProcessor) ----
    kpPc,               \* position inside _process_batch
    kpBatch,            \* batch: the messages, and whether pre_processing
                        \* and produce go through for each
    kpIdx,              \* messages of the batch the for loop has handled
    kpProduced,         \* messages whose result was handed to produce
    kpToCommit,         \* messages_to_commit
    kpCommitted,        \* committed position of each partition
    \* ---- build_scripts/api.py (SpecBuilds) ----
    builds,             \* the builds store: build_id -> record
    task,               \* where run_build(build_id, ...) stands, per build
    deleted,            \* build ids that DELETE /builds/{id} has removed
    artifacts,          \* per run_id, what MLflow holds for the run
    tempDir,            \* the files of /tmp/preprocessing-build
    sourceDir,          \* the files of <build context>/preprocessing
    lastBuild,          \* the latest call of build_docker_image
    nBuilt              \* calls of build_docker_image so far

cfgVars == <<batch_size, batch_timeout>>
runVars == <<pc, running, cRunning>>
callVars == <<reqSize, reqTimeout, effSize, effTimeout, consumed0, deser0>>
pollVars == <<elapsed, messages, polled>>
topicVars == <<pos, committed>>
procVars == <<results, toCommit, apiRet, apiErrors0>>
prodVars == <<prodIdx, pending, flushRemaining>>
consMetricVars == <<messages_consumed, deserialization_errors>>
iterVars == <<iterEvents, iterProduced, iterCommit, iterKeys, iterFailed>>
ghostVars == <<owed>>
lifeVars == <<raised, consumer, producer, session, closeLog>>
stopVars == <<stopAt, cycleAfterStop, yieldedAfterStop, completedAfterStop>>
bridgeVars == <<cfgVars, runVars, callVars, pollVars, topicVars, procVars,
                prodVars, consMetricVars, iterVars, ghostVars, lifeVars,
                stopVars>>
metricApiVars == <<api_calls, api_errors>>
apiVars == <<apiPc, api_retry_count, retryTotal, attempts, respLog, callRet>>
pwVars == <<pwPc, batchLen, batchLog, queued, batchRet, delivery,
            messages_produced, delivery_failures, lastRec, lastKey>>
dlqVars == <<dead_letter_topic>>
buildVars == <<config>>
serVars == <<serPc, record, wire, restored, skip_cutouts, again>>
healthVars == <<healthRet>>
incrVars == <<incr, recorded>>
logVars == <<lastLogAt, dropped>>
readVars == <<content, fromFile, fromStdin>>
avroVars == <<input, isAvro>>
runnerVars == <<readVars, avroVars>>
loadVars == <<preprocessing, loaded>>
streamVars == <<lastPoll>>
msgVars == <<serializer, payload, decoded, taken>>
kpVars == <<kpPc, kpBatch, kpIdx, kpProduced, kpToCommit, kpCommitted>>
svcVars == <<builds, task, deleted>>
ctxVars == <<artifacts, tempDir, sourceDir, lastBuild, nBuilt>>
extVars == <<loadVars, streamVars, msgVars, kpVars, svcVars, ctxVars>>
OthersOfLoad == <<streamVars, msgVars, kpVars, svcVars, ctxVars>>
OthersOfStream == <<loadVars, msgVars, kpVars, svcVars, ctxVars>>
OthersOfMsg == <<loadVars, streamVars, kpVars, svcVars, ctxVars>>
OthersOfKp == <<loadVars, streamVars, msgVars, svcVars, ctxVars>>
OthersOfSvc == <<loadVars, streamVars, msgVars, kpVars, ctxVars>>
OthersOfCtx == <<loadVars, streamVars, msgVars, kpVars, svcVars>>
unitVars == <<dlqVars, buildVars, serVars, healthVars, incrVars, logVars,
              runnerVars, extVars>>
vars == <<bridgeVars, metricApiVars, apiVars, pwVars, unitVars>>

\* positions of run() in state RUNNING: connect() has returned and close()
\* has not begun (bridge.py 190-220)
RunningPcs == {"iter_start", "iter_loop", "poll", "loop_body", "process",
               "produce", "commit", "metrics"}

\* positions of run() inside the handling of a yielded batch (bridge.py 204-216)
MidIteration == {"process", "produce", "commit"}

\* the part of the loop a position of RUNNING lies in: before the generator's
\* first statement, inside the handling of a batch, or in between
StopPhase(at) ==
    IF at = "iter_start" THEN "entering"
    ELSE IF at \in MidIteration THEN "processing"
    ELSE "polling"

(***************************************************************************)
(* Values.                                                                 *)
(***************************************************************************)
\* what call_batch can return: None, a list, or a mapping (given by its keys,
\* which is what len() and a loop over it see)
NoneVal == [isNone |-> TRUE, isList |-> FALSE, items |-> <<>>]
ListVal(s) == [isNone |-> FALSE, isList |-> TRUE, items |-> s]
MappingVal(keys) == [isNone |-> FALSE, isList |-> FALSE, items |-> keys]

\* the empty record {} used for padding
EmptyRecord == 0

\* the i-th record of a response body
Rec(i) == i

RecSeq(m) == [i \in 1 .. m |-> Rec(i)]

\* the keys "results" and "errors" of the mapping the batch endpoint puts
\* under "result" when some records failed (api_server.py 195-201)
ResultsKey == -1
ErrorsKey == -2
PartialResult == MappingVal(<<ResultsKey, ErrorsKey>>)

(***************************************************************************)
(* Field values of a source record and the key derived from them           *)
(* (bridge.py 102-107, 165-176; producer.py 110-111).  A value is a type    *)
(* tag and its text.                                                       *)
(***************************************************************************)
Absent == [t |-> "absent", s |-> ""]
Null == [t |-> "null", s |-> ""]
StrV(x) == [t |-> "str", s |-> x]
IntV(x) == [t |-> "int", s |-> x]
BytesV(x) == [t |-> "bytes", s |-> x]

\* decimal text of a small natural number
Digits == <<"0", "1", "2", "3", "4", "5", "6", "7", "8", "9">>
IntOf(n) == IntV(Digits[n + 1])

\* Python truth value of a field value
Truthy(v) ==
    CASE v.t = "absent" -> FALSE
      [] v.t = "null"   -> FALSE
      [] v.t = "int"    -> v.s # "0"
      [] OTHER          -> v.s # ""

\* data.get(name): None when the field is absent
Get(v) == IF v.t = "absent" THEN Null ELSE v

\* data.get(name, default)
GetDefault(v, d) == IF v.t = "absent" THEN d ELSE v

\* str(v)
Str(v) ==
    CASE v.t = "null" -> StrV("None")
      [] v.t = "int"  -> StrV(v.s)
      [] OTHER        -> v

\* (variant: a null candid gives no key)
ExtractKey_NullAware(data) ==
    IF Truthy(Get(data.objectId)) THEN Get(data.objectId)
    ELSE IF data.candid.t \in {"absent", "null"} THEN StrV("")
    ELSE Str(data.candid)

\* _extract_key: data.get("objectId") or str(data.get("candid", ""))
ExtractKey(data) ==
    IF Truthy(Get(data.objectId)) THEN Get(data.objectId)
    ELSE Str(GetDefault(data.candid, StrV("")))

\* the key argument handed to the Kafka client by produce (producer.py
\* 110-111): none unless `if key:` holds, a str is encoded to bytes
KwargsKey(key) ==
    IF ~Truthy(key) THEN Absent
    ELSE IF key.t = "str" THEN BytesV(key.s) ELSE key

\* config.bridge_name
BridgeName == "kafka-bridge"

\* the record a message of the inbound topic deserializes to: records of
\* partition 0 carry an objectId and a candid, those of partition 1 a candid
\* only; the candid of a record is its offset
DataOf(m) ==
    [objectId |-> IF m.p = 0 THEN StrV("ZTF18") ELSE Absent,
     candid   |-> IntOf(m.off)]


(***************************************************************************)
(* KafkaConsumerWrapper.consume_batch  (consumer.py 84-140)                *)
(***************************************************************************)
\* `x or default`: None and 0 both select the default (consumer.py 98-99)
OrDefault(x, d) == IF x = NoneArg \/ x = 0 THEN d ELSE x

\* (variant: the loop goes on until the batch is full, whatever the clock)
KeepPolling_UntilFull(msgs, size, spent, limit) == Len(msgs) < size

\* the loop condition and the remaining-time test (consumer.py 104-109)
KeepPolling(msgs, size, spent, limit) == Len(msgs) < size /\ spent < limit

\* try-branch of the loop body: the record joins the batch (consumer.py 117-119)
AppendDeserialized(msgs, m) == Append(msgs, m)

\* (variant: the undeserializable message is put into the batch all the same)
SkipUndeserializable_Kept(msgs, m) == Append(msgs, m)

\* except-branch of the loop body: the message is left out (consumer.py 121-131)
SkipUndeserializable(msgs, m) == msgs

\* entry of consume_batch(n, t): defaults applied, empty list, clock started
EnterConsumeBatch(n, t) ==
    /\ reqSize' = n
    /\ reqTimeout' = t
    /\ effSize' = OrDefault(n, batch_size)
    /\ effTimeout' = OrDefault(t, batch_timeout)
    /\ messages' = <<>>
    /\ polled' = <<>>
    /\ elapsed' = 0
    /\ consumed0' = messages_consumed
    /\ deser0' = deserialization_errors

\* a poll that returns at once with a message which deserializes; time only
\* passes in the polls that wait (PollNone)
PollValid ==
    /\ pc = "poll"
    /\ KeepPolling(messages, effSize, elapsed, effTimeout)
    /\ Delivered(pos) < MaxMessages
    /\ \E p \in Partitions :
          /\ LET m == [p |-> p, off |-> pos[p]] IN
                /\ pos' = [pos EXCEPT ![p] = @ + 1]
                /\ polled' = Append(polled, [msg |-> m, ok |-> TRUE])
                /\ messages' = AppendDeserialized(messages, m)
                /\ owed' = owed \cup {m}
    /\ UNCHANGED elapsed
    /\ messages_consumed' = messages_consumed + 1
    /\ UNCHANGED <<cfgVars, runVars, callVars, committed, procVars, prodVars,
                   deserialization_errors, iterVars>>
    /\ UNCHANGED <<lifeVars, stopVars>>
    /\ UNCHANGED <<metricApiVars, apiVars, pwVars, unitVars>>

\* a poll that returns a message whose payload does not deserialize
PollInvalid ==
    /\ pc = "poll"
    /\ KeepPolling(messages, effSize, elapsed, effTimeout)
    /\ Delivered(pos) < MaxMessages
    /\ \E p \in Partitions :
          /\ LET m == [p |-> p, off |-> pos[p]] IN
                /\ pos' = [pos EXCEPT ![p] = @ + 1]
                /\ polled' = Append(polled, [msg |-> m, ok |-> FALSE])
                /\ messages' = SkipUndeserializable(messages, m)
    /\ UNCHANGED elapsed
    /\ deserialization_errors' = deserialization_errors + 1
    /\ UNCHANGED <<cfgVars, runVars, callVars, committed, procVars, prodVars,
                   messages_consumed, iterVars, ghostVars>>
    /\ UNCHANGED <<lifeVars, stopVars>>
    /\ UNCHANGED <<metricApiVars, apiVars, pwVars, unitVars>>

\* a poll that waits its sub-timeout of 100 ms and returns no message
\* (consumer.py 111-114, 73-79)
PollNone ==
    /\ pc = "poll"
    /\ KeepPolling(messages, effSize, elapsed, effTimeout)
    /\ elapsed' = elapsed + 1
    /\ UNCHANGED <<messages, polled>>
    /\ UNCHANGED <<cfgVars, runVars, callVars, topicVars, procVars, prodVars,
                   consMetricVars, iterVars, ghostVars>>
    /\ UNCHANGED <<lifeVars, stopVars>>
    /\ UNCHANGED <<metricApiVars, apiVars, pwVars, unitVars>>

\* a poll that returns a message carrying a transport error other than
\* _PARTITION_EOF: _poll_single raises KafkaException, which leaves
\* consume_batch, the generator and the loop of run() (consumer.py 76-80,
\* bridge.py 225-230)
PollRaises ==
    /\ pc = "poll"
    /\ KeepPolling(messages, effSize, elapsed, effTimeout)
    /\ raised' = "poll"
    /\ pc' = "closing"
    /\ UNCHANGED <<running, cRunning>>
    /\ UNCHANGED <<cfgVars, callVars, pollVars, topicVars, procVars, prodVars,
                   consMetricVars, iterVars, ghostVars>>
    /\ UNCHANGED <<consumer, producer, session, closeLog, stopVars>>
    /\ UNCHANGED <<metricApiVars, apiVars, pwVars, unitVars>>

(***************************************************************************)
(* KafkaConsumerWrapper.iter_batches  (consumer.py 156-179)                *)
(***************************************************************************)
\* (variant: the loop of the generator is never entered)
WhileRunning_Never(flag) == FALSE

\* `while self._running:` (consumer.py 172)
WhileRunning(flag) == flag

\* first next() on the generator: self._running = True (consumer.py 170)
IterStart ==
    /\ pc = "iter_start"
    /\ cRunning' = TRUE
    /\ pc' = "iter_loop"
    /\ UNCHANGED running
    /\ UNCHANGED <<cfgVars, callVars, pollVars, topicVars, procVars, prodVars,
                   consMetricVars, iterVars, ghostVars>>
    /\ UNCHANGED <<lifeVars, stopVars>>
    /\ UNCHANGED <<metricApiVars, apiVars, pwVars, unitVars>>

\* `while self._running:` holds: consume_batch(batch_size, timeout_ms) starts
\* with the arguments run() leaves at None (consumer.py 172-173, bridge.py 197)
IterNext ==
    /\ pc = "iter_loop"
    /\ WhileRunning(cRunning)
    /\ EnterConsumeBatch(NoneArg, NoneArg)
    /\ pc' = "poll"
    /\ cycleAfterStop' = (cycleAfterStop \/ stopAt # "none")
    /\ UNCHANGED <<running, cRunning>>
    /\ UNCHANGED <<cfgVars, topicVars, procVars, prodVars, consMetricVars,
                   iterVars, ghostVars>>
    /\ UNCHANGED <<lifeVars, stopAt, yieldedAfterStop, completedAfterStop>>
    /\ UNCHANGED <<metricApiVars, apiVars, pwVars, unitVars>>

\* `while self._running:` fails: the generator ends and so does the for loop
IterEnd ==
    /\ pc = "iter_loop"
    /\ ~WhileRunning(cRunning)
    /\ pc' = "closing"
    /\ UNCHANGED <<running, cRunning>>
    /\ UNCHANGED <<cfgVars, callVars, pollVars, topicVars, procVars, prodVars,
                   consMetricVars, iterVars, ghostVars>>
    /\ UNCHANGED <<lifeVars, stopVars>>
    /\ UNCHANGED <<metricApiVars, apiVars, pwVars, unitVars>>

\* consume_batch returned a non-empty batch: it is yielded (consumer.py 174-175)
YieldBatch ==
    /\ pc = "poll"
    /\ ~KeepPolling(messages, effSize, elapsed, effTimeout)
    /\ messages # <<>>
    /\ pc' = "loop_body"
    /\ yieldedAfterStop' = (stopAt # "none")
    /\ UNCHANGED <<running, cRunning>>
    /\ UNCHANGED <<cfgVars, callVars, pollVars, topicVars, procVars, prodVars,
                   consMetricVars, iterVars, ghostVars>>
    /\ UNCHANGED <<lifeVars, stopAt, cycleAfterStop, completedAfterStop>>
    /\ UNCHANGED <<metricApiVars, apiVars, pwVars, unitVars>>

\* consume_batch returned an empty batch: nothing is yielded
EmptyBatch ==
    /\ pc = "poll"
    /\ ~KeepPolling(messages, effSize, elapsed, effTimeout)
    /\ messages = <<>>
    /\ pc' = "iter_loop"
    /\ UNCHANGED <<running, cRunning>>
    /\ UNCHANGED <<cfgVars, callVars, pollVars, topicVars, procVars, prodVars,
                   consMetricVars, iterVars, ghostVars>>
    /\ UNCHANGED <<lifeVars, stopVars>>
    /\ UNCHANGED <<metricApiVars, apiVars, pwVars, unitVars>>

(***************************************************************************)
(* APIClient.call_batch as seen by the orchestrator (api_client.py 131-191)*)
(* and KafkaBridge._process_batch (bridge.py 109-150)                      *)
(***************************************************************************)
\* JSON bodies of an HTTP-successful answer to a batch of n records
Bodies(n) ==
    {[kind |-> "list", val |-> ListVal(RecSeq(m))] : m \in 0 .. (n + 1)}
    \cup {[kind |-> "dict_result", val |-> ListVal(RecSeq(m))] : m \in 0 .. (n + 1)}
    \cup {[kind |-> "dict_result", val |-> NoneVal]}
    \cup {[kind |-> "dict_result", val |-> PartialResult]}
    \cup {[kind |-> "dict_plain", val |-> NoneVal]}
    \cup {[kind |-> "scalar", val |-> NoneVal]}

\* "Handle different response formats" (api_client.py 162-171):
\* result.get("result", [result]) for a mapping, the list itself, else [result]
NormalizeBatchResponse(body) ==
    CASE body.kind = "dict_result" -> body.val
      [] body.kind = "dict_plain"  -> ListVal(<<Rec(1)>>)
      [] body.kind = "list"        -> body.val
      [] OTHER                     -> ListVal(<<Rec(1)>>)

\* (variant: padding only, a longer result list is passed on as it is)
Align_NoTruncate(res, n) ==
    IF Len(res) < n
    THEN res \o [i \in 1 .. (n - Len(res)) |-> EmptyRecord]
    ELSE res

\* "Pad or truncate results" (bridge.py 138-148)
Align(res, n) ==
    IF Len(res) < n
    THEN res \o [i \in 1 .. (n - Len(res)) |-> EmptyRecord]
    ELSE SubSeq(res, 1, n)

\* the alignment raises when the results are a mapping whose length differs
\* from the batch's: a dict has no extend() and cannot be sliced
\* (bridge.py 145-148)
AlignRaises(ret, n) == ~ret.isNone /\ ~ret.isList /\ Len(ret.items) # n

\* _process_batch's first return value (bridge.py 130-150)
ProcessResults(ret, n) == IF ret.isNone THEN <<>> ELSE Align(ret.items, n)

\* _process_batch's second return value (bridge.py 122, 135, 150)
ProcessMessages(ret, msgs) == IF ret.isNone THEN <<>> ELSE msgs

\* record_api_call(success) on the error counter (logger.py 152-156)
RecordApiErrors(errs, success) == IF success THEN errs ELSE errs + 1

\* `if not self._running: break` fails, `if not batch: continue` fails:
\* the body of the for loop starts on the yielded batch (bridge.py 198-205)
BeginIteration ==
    /\ pc = "loop_body"
    /\ running
    /\ messages # <<>>
    /\ pc' = "process"
    /\ iterEvents' = <<>>
    /\ iterProduced' = <<>>
    /\ iterCommit' = <<>>
    /\ iterKeys' = <<>>
    /\ iterFailed' = FALSE
    /\ apiErrors0' = api_errors
    /\ prodIdx' = 0
    /\ flushRemaining' = 0
    /\ UNCHANGED <<running, cRunning, results, toCommit, apiRet, pending>>
    /\ UNCHANGED <<cfgVars, callVars, pollVars, topicVars, consMetricVars,
                   ghostVars>>
    /\ UNCHANGED <<lifeVars, stopVars>>
    /\ UNCHANGED <<metricApiVars, apiVars, pwVars, unitVars>>

\* `if not self._running: break` (bridge.py 198-199)
LoopBreak ==
    /\ pc = "loop_body"
    /\ ~running
    /\ pc' = "closing"
    /\ UNCHANGED <<running, cRunning>>
    /\ UNCHANGED <<cfgVars, callVars, pollVars, topicVars, procVars, prodVars,
                   consMetricVars, iterVars, ghostVars>>
    /\ UNCHANGED <<lifeVars, stopVars>>
    /\ UNCHANGED <<metricApiVars, apiVars, pwVars, unitVars>>

\* what _process_batch leaves behind once the processing call returned `ret`
AfterProcessBatch(ret) ==
    /\ apiRet' = ret
    /\ results' = ProcessResults(ret, Len(messages))
    /\ toCommit' = ProcessMessages(ret, messages)
    /\ pc' = IF ProcessResults(ret, Len(messages)) # <<>> THEN "produce" ELSE "metrics"

\* the processing call fails (exhausted retries, HTTP error status, timeout,
\* connection error): the error is counted and None returned
CallApiFail ==
    /\ pc = "process"
    /\ api_calls' = api_calls + 1
    /\ api_errors' = RecordApiErrors(api_errors, FALSE)
    /\ AfterProcessBatch(NoneVal)
    /\ UNCHANGED <<running, cRunning, apiErrors0>>
    /\ UNCHANGED <<cfgVars, callVars, pollVars, topicVars, prodVars,
                   consMetricVars, iterVars, ghostVars>>
    /\ UNCHANGED <<lifeVars, stopVars>>
    /\ UNCHANGED <<apiVars, pwVars, unitVars>>

\* the processing call gets an HTTP-successful answer with some JSON body
CallApiOk ==
    /\ pc = "process"
    /\ api_calls' = api_calls + 1
    /\ api_errors' = RecordApiErrors(api_errors, TRUE)
    /\ \E body \in Bodies(Len(messages)) :
          /\ ~AlignRaises(NormalizeBatchResponse(body), Len(messages))
          /\ AfterProcessBatch(NormalizeBatchResponse(body))
    /\ UNCHANGED <<running, cRunning, apiErrors0>>
    /\ UNCHANGED <<cfgVars, callVars, pollVars, topicVars, prodVars,
                   consMetricVars, iterVars, ghostVars>>
    /\ UNCHANGED <<lifeVars, stopVars>>
    /\ UNCHANGED <<apiVars, pwVars, unitVars>>

\* the processing call gets an HTTP-successful answer and returns a mapping
\* that _process_batch cannot align: AttributeError or TypeError leaves
\* _process_batch and the loop of run() (bridge.py 138-148, 225-230)
ProcessBatchRaises ==
    /\ pc = "process"
    /\ api_calls' = api_calls + 1
    /\ api_errors' = RecordApiErrors(api_errors, TRUE)
    /\ \E body \in Bodies(Len(messages)) :
          /\ AlignRaises(NormalizeBatchResponse(body), Len(messages))
          /\ apiRet' = NormalizeBatchResponse(body)
    /\ raised' = "process"
    /\ pc' = "closing"
    /\ UNCHANGED <<running, cRunning, results, toCommit, apiErrors0>>
    /\ UNCHANGED <<cfgVars, callVars, pollVars, topicVars, prodVars,
                   consMetricVars, iterVars, ghostVars>>
    /\ UNCHANGED <<consumer, producer, session, closeLog, stopVars>>
    /\ UNCHANGED <<apiVars, pwVars, unitVars>>

(***************************************************************************)
(* KafkaBridge._produce_results (bridge.py 152-181), the commit            *)
(* (bridge.py 214-216, consumer.py 142-154) and the rest of run()          *)
(***************************************************************************)
\* the enriched record built for results[i] (bridge.py 165-174); the source
\* record is identified by the inbound message it was deserialized from
\* (variant: the candid of the source record is left out)
Envelope_NoCandid(result, src) ==
    [result |-> result,
     source |-> [objectId |-> Get(DataOf(src).objectId), candid |-> Null],
     bridge |-> BridgeName]

Envelope(result, src) ==
    [result |-> result,
     source |-> [objectId |-> Get(DataOf(src).objectId),
                 candid   |-> Get(DataOf(src).candid)],
     bridge |-> BridgeName]

\* (variant: the first message of the batch is committed)
CommitTarget_First(msgs) == msgs[1]

\* messages[-1] (bridge.py 216)
CommitTarget(msgs) == msgs[Len(msgs)]

\* consumer.commit(message=m, asynchronous=False): the committed position of
\* m's partition becomes m's offset + 1 (consumer.py 151-152)
CommitOffsets(c, m) == [c EXCEPT ![m.p] = m.off + 1]

\* whether run() goes on to commit after _produce_results (bridge.py 212-216):
\* the value returned by flush is not looked at
CommitAfterFlush(remaining, msgs) == msgs # <<>>

\* one turn of `for i, result in enumerate(results)`: produce (bridge.py 163-178);
\* producer.poll(0) may serve delivery callbacks of queued messages
ProduceOne ==
    /\ pc = "produce"
    /\ prodIdx < Len(results)
    /\ LET i == prodIdx + 1 IN
          /\ iterProduced' = Append(iterProduced, Envelope(results[i], messages[i]))
          /\ iterKeys' = Append(iterKeys, KwargsKey(ExtractKey(DataOf(messages[i]))))
    /\ prodIdx' = prodIdx + 1
    /\ iterEvents' = Append(iterEvents, "produce")
    /\ \E d \in 0 .. (pending + 1) :
          /\ pending' = pending + 1 - d
          /\ iterFailed' \in {iterFailed} \cup {TRUE : x \in 1 .. d}
    /\ UNCHANGED <<flushRemaining, iterCommit>>
    /\ UNCHANGED <<cfgVars, runVars, callVars, pollVars, topicVars, procVars,
                   consMetricVars, ghostVars>>
    /\ UNCHANGED <<lifeVars, stopVars>>
    /\ UNCHANGED <<metricApiVars, apiVars, pwVars, unitVars>>

\* producer.produce raises (serialization or enqueueing failed, producer.py
\* 101-129): the exception leaves _produce_results and the loop of run(), whose
\* finally clause closes the bridge (bridge.py 225-230)
ProduceRaises ==
    /\ pc = "produce"
    /\ prodIdx < Len(results)
    /\ iterEvents' = Append(iterEvents, "produce_raised")
    /\ raised' = "produce"
    /\ pc' = "closing"
    /\ UNCHANGED <<running, cRunning, iterProduced, iterCommit, iterKeys,
                   iterFailed>>
    /\ UNCHANGED <<cfgVars, callVars, pollVars, topicVars, procVars, prodVars,
                   consMetricVars, ghostVars>>
    /\ UNCHANGED <<consumer, producer, session, closeLog, stopVars>>
    /\ UNCHANGED <<metricApiVars, apiVars, pwVars, unitVars>>

\* self.producer.flush(timeout=10) after the loop (bridge.py 180-181,
\* producer.py 170-190): returns the number of messages still queued
Flush ==
    /\ pc = "produce"
    /\ prodIdx = Len(results)
    /\ \E r \in 0 .. pending :
          /\ flushRemaining' = r
          /\ pending' = r
          /\ iterFailed' \in {iterFailed} \cup {TRUE : x \in 1 .. (pending - r)}
    /\ iterEvents' = Append(iterEvents, "flush")
    /\ owed' = owed \ {messages[i] : i \in 1 .. Len(iterProduced)}
    /\ pc' = "commit"
    /\ UNCHANGED <<running, cRunning, prodIdx, iterProduced, iterCommit, iterKeys>>
    /\ UNCHANGED <<cfgVars, callVars, pollVars, topicVars, procVars,
                   consMetricVars>>
    /\ UNCHANGED <<lifeVars, stopVars>>
    /\ UNCHANGED <<metricApiVars, apiVars, pwVars, unitVars>>

\* `if messages: self.consumer.commit(messages[-1])` (bridge.py 214-216)
Commit ==
    /\ pc = "commit"
    /\ IF CommitAfterFlush(flushRemaining, toCommit)
       THEN LET m == CommitTarget(toCommit) IN
               /\ committed' = CommitOffsets(committed, m)
               /\ iterCommit' = <<m>>
               /\ iterEvents' = Append(iterEvents, "commit")
       ELSE UNCHANGED <<committed, iterCommit, iterEvents>>
    /\ pc' = "metrics"
    /\ UNCHANGED <<running, cRunning, pos, iterProduced, iterKeys, iterFailed>>
    /\ UNCHANGED <<cfgVars, callVars, pollVars, procVars, prodVars,
                   consMetricVars, ghostVars>>
    /\ UNCHANGED <<lifeVars, stopVars>>
    /\ UNCHANGED <<metricApiVars, apiVars, pwVars, unitVars>>

\* (variant: the position is committed although commit raised)
CommitOffsetsFailed_Committed(c, m) == [c EXCEPT ![m.p] = m.off + 1]

\* the committed positions after a commit that raised: unchanged
CommitOffsetsFailed(c, m) == c

\* consumer.commit(message=..., asynchronous=False) raises KafkaException: the
\* position is not committed and the exception leaves the loop of run()
\* (consumer.py 151-152, bridge.py 216, 225-230)
CommitRaises ==
    /\ pc = "commit"
    /\ CommitAfterFlush(flushRemaining, toCommit)
    /\ iterEvents' = Append(iterEvents, "commit_raised")
    /\ committed' = CommitOffsetsFailed(committed, CommitTarget(toCommit))
    /\ raised' = "commit"
    /\ pc' = "closing"
    /\ UNCHANGED <<running, cRunning, pos, iterProduced, iterCommit, iterKeys,
                   iterFailed>>
    /\ UNCHANGED <<cfgVars, callVars, pollVars, procVars, prodVars,
                   consMetricVars, ghostVars>>
    /\ UNCHANGED <<consumer, producer, session, closeLog, stopVars>>
    /\ UNCHANGED <<metricApiVars, apiVars, pwVars, unitVars>>

\* end of the loop body: periodic metrics, then back to the generator
\* (bridge.py 218-220); the iteration's locals are dropped
EndIteration ==
    /\ pc = "metrics"
    /\ pc' = "iter_loop"
    /\ results' = <<>>
    /\ toCommit' = <<>>
    /\ apiRet' = NoneVal
    /\ iterEvents' = <<>>
    /\ iterProduced' = <<>>
    /\ iterCommit' = <<>>
    /\ iterKeys' = <<>>
    /\ iterFailed' = FALSE
    /\ prodIdx' = 0
    /\ flushRemaining' = 0
    /\ completedAfterStop' = (completedAfterStop \/ stopAt = "processing")
    /\ UNCHANGED <<running, cRunning, apiErrors0, pending>>
    /\ UNCHANGED <<cfgVars, callVars, pollVars, topicVars, consMetricVars,
                   ghostVars>>
    /\ UNCHANGED <<lifeVars, stopAt, cycleAfterStop, yieldedAfterStop>>
    /\ UNCHANGED <<metricApiVars, apiVars, pwVars, unitVars>>

\* run() is entered: self._running = True, then connect() (bridge.py 185-188)
Run ==
    /\ pc = "created"
    /\ running' = TRUE
    /\ pc' = "connecting"
    /\ UNCHANGED cRunning
    /\ UNCHANGED <<cfgVars, callVars, pollVars, topicVars, procVars, prodVars,
                   consMetricVars, iterVars, ghostVars>>
    /\ UNCHANGED <<lifeVars, stopVars>>
    /\ UNCHANGED <<metricApiVars, apiVars, pwVars, unitVars>>

\* the exceptions that can leave the loop of run() (bridge.py 197-220): raised
\* by a poll, by _process_batch, by produce, by commit
RunningErrors == {"poll", "process", "produce", "commit"}

\* the ways connect() can fail (bridge.py 87-92)
ConnectFailures == {"consumer_connect", "producer_connect", "api_unavailable"}

\* (variant: a failed connect() is ignored and the loop is entered)
AfterConnect_IgnoresFailure(failed) == "iter_start"

\* where run() goes after connect(): on to the for loop, or, when connect()
\* raised, through `except Exception` to `finally` (bridge.py 187-197, 225-230)
AfterConnect(failed) == IF failed THEN "closing" ELSE "iter_start"

\* connect() returns: consumer and producer are connected and wait_for_api
\* returned true; "Bridge running" is logged (bridge.py 82-92, 190-195)
ConnectOk ==
    /\ pc = "connecting"
    /\ consumer' = "open"
    /\ producer' = "open"
    /\ pc' = AfterConnect(FALSE)
    /\ UNCHANGED <<running, cRunning, raised, session, closeLog, stopVars>>
    /\ UNCHANGED <<cfgVars, callVars, pollVars, topicVars, procVars, prodVars,
                   consMetricVars, iterVars, ghostVars>>
    /\ UNCHANGED <<metricApiVars, apiVars, pwVars, unitVars>>

\* connect() raises: consumer.connect() or producer.connect() raises, or
\* wait_for_api returns false and RuntimeError is raised (bridge.py 87-92);
\* control passes to `except Exception` and `finally` (bridge.py 225-230).
\* Consumer(...) may raise before self.consumer is assigned, or subscribe()
\* after it (consumer.py 42-43)
ConnectFails ==
    /\ pc = "connecting"
    /\ \E why \in ConnectFailures :
          /\ raised' = why
          /\ consumer' \in (IF why = "consumer_connect"
                             THEN {"none", "open"} ELSE {"open"})
          /\ producer' = IF why = "api_unavailable" THEN "open" ELSE "none"
    /\ pc' = AfterConnect(TRUE)
    /\ UNCHANGED <<running, cRunning, session, closeLog, stopVars>>
    /\ UNCHANGED <<cfgVars, callVars, pollVars, topicVars, procVars, prodVars,
                   consMetricVars, iterVars, ghostVars>>
    /\ UNCHANGED <<metricApiVars, apiVars, pwVars, unitVars>>

\* stop(), called by the signal handler (bridge.py 72-77, 232-235,
\* consumer.py 177-179)
Stop ==
    /\ pc \notin {"created", "closed"}
    /\ running \/ cRunning
    /\ running' = FALSE
    /\ cRunning' = FALSE
    /\ stopAt' = IF stopAt = "none" /\ pc \in RunningPcs
                  THEN StopPhase(pc) ELSE stopAt
    /\ UNCHANGED pc
    /\ UNCHANGED <<cfgVars, callVars, pollVars, topicVars, procVars, prodVars,
                   consMetricVars, iterVars, ghostVars>>
    /\ UNCHANGED <<lifeVars, cycleAfterStop, yieldedAfterStop, completedAfterStop>>
    /\ UNCHANGED <<metricApiVars, apiVars, pwVars, unitVars>>

\* (variant: the producer is closed before the consumer)
CloseSteps_ProducerFirst == <<"producer", "consumer", "api_client", "metrics">>

\* the statements of close(), in order: consumer.close(), producer.close(),
\* api_client.close(), logger.log_metrics() (bridge.py 97-100)
CloseSteps == <<"consumer", "producer", "api_client", "metrics">>

\* finally: self.close() (bridge.py 229-230, 94-100).  consumer.close() clears
\* the flag and closes the connection if there is one (consumer.py 52-57);
\* producer.close() is a last flush(timeout=30) if there is a producer, what is
\* still queued after it is only logged (producer.py 49-60); api_client.close()
\* closes the session (api_client.py 251-253).  run() then returns, or
\* re-raises the exception caught by `except Exception` (bridge.py 225-227):
\* `raised` is what reaches the caller.  The locals of run() and of the
\* generator go with the frame, and the history of the iteration with them
Close ==
    /\ pc = "closing"
    /\ cRunning' = FALSE
    /\ consumer' = IF consumer = "open" THEN "closed" ELSE consumer
    /\ IF producer = "open"
       THEN /\ \E r \in 0 .. pending : pending' = r
            /\ producer' = "flushed"
       ELSE UNCHANGED <<pending, producer>>
    /\ session' = "closed"
    /\ closeLog' = closeLog \o CloseSteps
    /\ pc' = "closed"
    /\ messages' = <<>>
    /\ polled' = <<>>
    /\ elapsed' = 0
    /\ consumed0' = messages_consumed
    /\ deser0' = deserialization_errors
    /\ results' = <<>>
    /\ toCommit' = <<>>
    /\ apiRet' = NoneVal
    /\ apiErrors0' = api_errors
    /\ iterEvents' = <<>>
    /\ iterProduced' = <<>>
    /\ iterCommit' = <<>>
    /\ iterKeys' = <<>>
    /\ iterFailed' = FALSE
    /\ prodIdx' = 0
    /\ flushRemaining' = 0
    /\ UNCHANGED <<running, raised, stopVars>>
    /\ UNCHANGED <<reqSize, reqTimeout, effSize, effTimeout>>
    /\ UNCHANGED <<cfgVars, topicVars, consMetricVars, ghostVars>>
    /\ UNCHANGED <<metricApiVars, apiVars, pwVars, unitVars>>

(***************************************************************************)
(* Python values as the serializers see them (serializers.py 105-127):     *)
(* None, bool, number, str, bytes, dict and list.  A str is the sequence   *)
(* of its characters, a bytes value the sequence of its octets.            *)
(***************************************************************************)
PyNone == [t |-> "NoneType"]
PyBool(b) == [t |-> "bool", b |-> b]
PyNum(n) == [t |-> "number", n |-> n]
PyStr(cs) == [t |-> "str", cs |-> cs]
PyBytes(bs) == [t |-> "bytes", bs |-> bs]
PyDict(m) == [t |-> "dict", m |-> m]
PyList(xs) == [t |-> "list", xs |-> xs]
\* an exception propagating instead of a value
PyRaised == [t |-> "raised"]

\* the literals of serializers.py 109-111 and 122
StrBytes == PyStr(<<"b", "y", "t", "e", "s">>)
StrBase64 == PyStr(<<"b", "a", "s", "e", "6", "4">>)

\* the base64 alphabet (RFC 4648) and its padding character
B64Alphabet ==
    <<"A", "B", "C", "D", "E", "F", "G", "H", "I", "J", "K", "L", "M",
      "N", "O", "P", "Q", "R", "S", "T", "U", "V", "W", "X", "Y", "Z",
      "a", "b", "c", "d", "e", "f", "g", "h", "i", "j", "k", "l", "m",
      "n", "o", "p", "q", "r", "s", "t", "u", "v", "w", "x", "y", "z",
      "0", "1", "2", "3", "4", "5", "6", "7", "8", "9", "+", "/">>
B64Pad == "="
B64Char(n) == B64Alphabet[n + 1]
B64Index(c) == (CHOOSE i \in 1 .. 64 : B64Alphabet[i] = c) - 1

\* base64.b64encode(bs).decode("ascii"): three octets become four characters,
\* a last group of one or two octets is padded
RECURSIVE B64Encode(_)
B64Encode(bs) ==
    IF Len(bs) = 0 THEN <<>>
    ELSE IF Len(bs) = 1 THEN
        <<B64Char(bs[1] \div 4), B64Char((bs[1] % 4) * 16), B64Pad, B64Pad>>
    ELSE IF Len(bs) = 2 THEN
        <<B64Char(bs[1] \div 4),
          B64Char((bs[1] % 4) * 16 + bs[2] \div 16),
          B64Char((bs[2] % 16) * 4), B64Pad>>
    ELSE
        <<B64Char(bs[1] \div 4),
          B64Char((bs[1] % 4) * 16 + bs[2] \div 16),
          B64Char((bs[2] % 16) * 4 + bs[3] \div 64),
          B64Char(bs[3] % 64)>> \o B64Encode(SubSeq(bs, 4, Len(bs)))

\* the octets of one group of four characters
B64Quad(q) ==
    LET a == B64Index(q[1])
        b == B64Index(q[2])
    IN  IF q[3] = B64Pad THEN <<a * 4 + b \div 16>>
        ELSE LET c == B64Index(q[3])
             IN  IF q[4] = B64Pad
                 THEN <<a * 4 + b \div 16, (b % 16) * 16 + c \div 4>>
                 ELSE <<a * 4 + b \div 16, (b % 16) * 16 + c \div 4,
                        (c % 4) * 64 + B64Index(q[4])>>

RECURSIVE B64Groups(_)
B64Groups(cs) ==
    IF Len(cs) = 0 THEN <<>>
    ELSE B64Quad(SubSeq(cs, 1, 4)) \o B64Groups(SubSeq(cs, 5, Len(cs)))

\* base64.b64decode(v): a str of whole, correctly padded groups decodes; a
\* str of any other length raises binascii.Error, a value that is no str
\* raises TypeError
B64Decode(v) ==
    IF v.t # "str" THEN PyRaised
    ELSE IF Len(v.cs) % 4 # 0 THEN PyRaised
    ELSE PyBytes(B64Groups(v.cs))

(***************************************************************************)
(* Initial states and the orchestrator's specification.                    *)
(***************************************************************************)
InitConfig ==
    /\ batch_size \in 1 .. MaxBatchSize
    /\ batch_timeout \in 1 .. MaxTicks

InitBridgeState ==
    /\ running = FALSE
    /\ cRunning = FALSE
    /\ reqSize = NoneArg
    /\ reqTimeout = NoneArg
    /\ effSize = batch_size
    /\ effTimeout = batch_timeout
    /\ elapsed = 0
    /\ pos = [p \in Partitions |-> 0]
    /\ committed = [p \in Partitions |-> 0]
    /\ messages = <<>>
    /\ polled = <<>>
    /\ results = <<>>
    /\ toCommit = <<>>
    /\ apiRet = NoneVal
    /\ prodIdx = 0
    /\ pending = 0
    /\ flushRemaining = 0
    /\ messages_consumed = 0
    /\ deserialization_errors = 0
    /\ api_calls = 0
    /\ api_errors = 0
    /\ iterEvents = <<>>
    /\ iterProduced = <<>>
    /\ iterCommit = <<>>
    /\ iterKeys = <<>>
    /\ iterFailed = FALSE
    /\ owed = {}
    /\ consumed0 = 0
    /\ deser0 = 0
    /\ apiErrors0 = 0
    /\ raised = "none"
    /\ session = "open"
    /\ closeLog = <<>>
    /\ stopAt = "none"
    /\ cycleAfterStop = FALSE
    /\ yieldedAfterStop = FALSE
    /\ completedAfterStop = FALSE

\* neither connect() has been called (consumer.py 36, producer.py 35)
InitUnconnected ==
    /\ consumer = "none"
    /\ producer = "none"

\* the producer wrapper as constructed (producer.py 35-36) and the metrics
\* as constructed (logger.py 78-85)
InitProducerIdle ==
    /\ pwPc = "idle"
    /\ batchLen = 0
    /\ batchLog = <<>>
    /\ queued = 0
    /\ batchRet = NoneArg
    /\ delivery = <<>>
    /\ messages_produced = 0
    /\ delivery_failures = 0
    /\ lastRec = [objectId |-> Absent, candid |-> Absent]
    /\ lastKey = Absent

InitApiIdle ==
    /\ apiPc = "idle"
    /\ api_retry_count = 0
    /\ retryTotal = 0
    /\ attempts = 0
    /\ respLog = <<>>
    /\ callRet = NoneVal

\* DEAD_LETTER_TOPIC is not set (config.py 85)
InitDlqIdle == dead_letter_topic = Null

\* BridgeConfig() with no environment variable set (config.py 38-66)
DefaultConfig ==
    [input_format |-> "avro", output_format |-> "json",
     avro_schema_path |-> StrV("/app/schemas/ztf_alert_v3.3.avsc"),
     output_avro_schema_path |-> Null,
     api_url |-> "http://localhost:8000", api_endpoint |-> "/preprocess/batch"]

InitBuildIdle == config = DefaultConfig

\* the execution contexts that update the metrics: the main loop and the
\* producer's delivery callback
Contexts == {"main", "callback"}

\* the counters of BridgeLogger.metrics (logger.py 78-85)
MetricKeys == {"messages_consumed", "messages_produced", "api_calls",
               "api_errors", "deserialization_errors"}

\* no record_* call is in progress and none has been made
InitIncrIdle ==
    /\ incr = [c \in Contexts |-> [pc |-> "idle", todo |-> <<>>, tmp |-> 0,
                                    calls |-> 0]]
    /\ recorded = [k \in MetricKeys |-> 0]

\* a reader of runner.py that has not been called
NotRead == [read |-> FALSE, items |-> <<>>]
NotAsked == [asked |-> FALSE, ret |-> FALSE]
NoInput == [stdin |-> TRUE, tell |-> "zero", name |-> <<>>,
            readable |-> FALSE, octets |-> <<>>]

InitReadIdle ==
    /\ content = <<>>
    /\ fromFile = NotRead
    /\ fromStdin = NotRead

InitAvroIdle ==
    /\ input = NoInput
    /\ isAvro = NotAsked

\* none of the readers of runner.py has been called
InitRunnerIdle ==
    /\ InitReadIdle
    /\ InitAvroIdle

\* load_preprocessing has not been called
NoPreprocessing == [exists |-> FALSE, raises |-> FALSE, attrs |-> <<>>]
NotLoaded == [out |-> "not_called", how |-> "none", attr |-> <<>>]
InitLoadIdle ==
    /\ preprocessing = NoPreprocessing
    /\ loaded = NotLoaded

\* no poll has come back
InitStreamIdle == lastPoll = "none"

\* the build service has received no request
InitSvcIdle ==
    /\ builds = <<>>
    /\ task = <<>>
    /\ deleted = {}

\* build_docker_image has not been called
NoArtifacts == <<>>

NoBuild == [run |-> 0, outcome |-> "none", context |-> {}]

InitCtxIdle ==
    /\ artifacts = NoArtifacts
    /\ tempDir = {}
    /\ sourceDir = {}
    /\ lastBuild = NoBuild
    /\ nBuilt = 0

\* _process_batch of the runner's KafkaProcessor has not been called
InitKpIdle ==
    /\ kpPc = "idle"
    /\ kpBatch = <<>>
    /\ kpIdx = 0
    /\ kpProduced = <<>>
    /\ kpToCommit = <<>>
    /\ kpCommitted = [p \in Partitions |-> 0]

\* no message has been handed to the input serializer
NotJson == [j |-> "invalid"]
NoPayload == [utf8 |-> TRUE, json |-> NotJson, avro |-> PyRaised]
NotDecoded == [t |-> "not_called"]
InitMsgIdle ==
    /\ serializer = [input_format |-> "avro", avro |-> TRUE,
                     skip_cutouts |-> TRUE]
    /\ payload = NoPayload
    /\ decoded = NotDecoded
    /\ taken = <<>>

\* the runner and the build service have not been used
InitExtIdle ==
    /\ InitLoadIdle
    /\ InitStreamIdle
    /\ InitMsgIdle
    /\ InitKpIdle
    /\ InitSvcIdle
    /\ InitCtxIdle

IdleButLoad ==
    /\ InitStreamIdle
    /\ InitMsgIdle
    /\ InitKpIdle
    /\ InitSvcIdle
    /\ InitCtxIdle

IdleButStream ==
    /\ InitLoadIdle
    /\ InitMsgIdle
    /\ InitKpIdle
    /\ InitSvcIdle
    /\ InitCtxIdle

IdleButMsg ==
    /\ InitLoadIdle
    /\ InitStreamIdle
    /\ InitKpIdle
    /\ InitSvcIdle
    /\ InitCtxIdle

IdleButKp ==
    /\ InitLoadIdle
    /\ InitStreamIdle
    /\ InitMsgIdle
    /\ InitSvcIdle
    /\ InitCtxIdle

IdleButSvc ==
    /\ InitLoadIdle
    /\ InitStreamIdle
    /\ InitMsgIdle
    /\ InitKpIdle
    /\ InitCtxIdle

IdleButCtx ==
    /\ InitLoadIdle
    /\ InitStreamIdle
    /\ InitMsgIdle
    /\ InitKpIdle
    /\ InitSvcIdle

\* the loop has not logged its metrics
InitLogIdle ==
    /\ lastLogAt = 0
    /\ dropped = FALSE

\* no health check has been made
InitHealthIdle == healthRet = FALSE

\* no serializer call has been made
InitSerIdle ==
    /\ serPc = "idle"
    /\ record = PyNone
    /\ wire = PyNone
    /\ restored = PyNone
    /\ skip_cutouts = TRUE
    /\ again = PyNone

\* the parts of the package that a specification does not exercise, as
\* constructed
InitUnitsIdle ==
    /\ InitDlqIdle
    /\ InitBuildIdle
    /\ InitSerIdle
    /\ InitHealthIdle
    /\ InitIncrIdle
    /\ InitLogIdle
    /\ InitRunnerIdle
    /\ InitExtIdle

Init ==
    /\ pc = "created"
    /\ InitUnitsIdle
    /\ InitConfig
    /\ InitBridgeState
    /\ InitUnconnected
    /\ InitApiIdle
    /\ InitProducerIdle

Next ==
    \/ Run
    \/ ConnectOk
    \/ ConnectFails
    \/ IterStart
    \/ IterNext
    \/ IterEnd
    \/ PollValid
    \/ PollInvalid
    \/ PollNone
    \/ PollRaises
    \/ YieldBatch
    \/ EmptyBatch
    \/ BeginIteration
    \/ LoopBreak
    \/ CallApiFail
    \/ CallApiOk
    \/ ProcessBatchRaises
    \/ ProduceOne
    \/ ProduceRaises
    \/ Flush
    \/ Commit
    \/ CommitRaises
    \/ EndIteration
    \/ Stop
    \/ Close

Spec == Init /\ [][Next]_vars

\* a step of the thread that runs run(): everything but the signal handler.
\* The thread is scheduled as long as it has a step to take
BridgeStep ==
    \/ ConnectOk
    \/ ConnectFails
    \/ IterStart
    \/ IterNext
    \/ IterEnd
    \/ PollValid
    \/ PollInvalid
    \/ PollNone
    \/ PollRaises
    \/ YieldBatch
    \/ EmptyBatch
    \/ BeginIteration
    \/ LoopBreak
    \/ CallApiFail
    \/ CallApiOk
    \/ ProcessBatchRaises
    \/ ProduceOne
    \/ ProduceRaises
    \/ Flush
    \/ Commit
    \/ CommitRaises
    \/ EndIteration
    \/ Close

\* the orchestrator with a thread that keeps running
SpecLive == Init /\ [][Next]_vars /\ WF_vars(BridgeStep)

(***************************************************************************)
(* consume_batch(n, t) called directly, with any arguments.                *)
(***************************************************************************)
\* arguments a caller may pass: None, or a number
SizeArgs == {NoneArg} \cup (0 .. MaxBatchSize)
TimeoutArgs == {NoneArg} \cup (0 .. MaxTicks)

\* consume_batch(n, t) is entered (consumer.py 84-102)
CallConsumeBatch ==
    /\ pc \in {"cb_idle", "cb_returned"}
    /\ \E n \in SizeArgs, t \in TimeoutArgs : EnterConsumeBatch(n, t)
    /\ pc' = "poll"
    /\ UNCHANGED <<running, cRunning>>
    /\ UNCHANGED <<cfgVars, topicVars, procVars, prodVars, consMetricVars,
                   iterVars, ghostVars>>
    /\ UNCHANGED <<lifeVars, stopVars>>
    /\ UNCHANGED <<metricApiVars, apiVars, pwVars, unitVars>>

\* the while loop ends and `return messages` runs (consumer.py 104-109, 140)
ReturnBatch ==
    /\ pc = "poll"
    /\ ~KeepPolling(messages, effSize, elapsed, effTimeout)
    /\ pc' = "cb_returned"
    /\ UNCHANGED <<running, cRunning>>
    /\ UNCHANGED <<cfgVars, callVars, pollVars, topicVars, procVars, prodVars,
                   consMetricVars, iterVars, ghostVars>>
    /\ UNCHANGED <<lifeVars, stopVars>>
    /\ UNCHANGED <<metricApiVars, apiVars, pwVars, unitVars>>

InitConsume ==
    /\ InitUnitsIdle
    /\ pc = "cb_idle"
    /\ InitConfig
    /\ InitBridgeState
    /\ InitUnconnected
    /\ InitApiIdle
    /\ InitProducerIdle

NextConsume ==
    \/ CallConsumeBatch
    \/ PollValid
    \/ PollInvalid
    \/ PollNone
    \/ ReturnBatch

SpecConsume == InitConsume /\ [][NextConsume]_vars

(***************************************************************************)
(* consume_batch on a topic that never runs dry.  The wall clock read at   *)
(* consumer.py 105 goes on whatever the loop does; messages that do not    *)
(* deserialize and partition-EOF events come back from poll at once, as    *)
(* often as the loop asks.                                                 *)
(***************************************************************************)
\* deserialization_errors is counted up to MaxCounted per stream
MaxCounted == 2

\* what the consumer and the other parts keep while the stream is polled
StreamFrame ==
    /\ UNCHANGED <<cfgVars, runVars, callVars, topicVars, procVars, prodVars,
                   iterVars, ghostVars>>
    /\ UNCHANGED <<lifeVars, stopVars>>
    /\ UNCHANGED <<metricApiVars, apiVars, pwVars>>
    /\ UNCHANGED <<dlqVars, buildVars, serVars, healthVars, incrVars, logVars,
                   runnerVars, OthersOfStream>>

\* time.time() has moved on by one sub-timeout since the call started
\* (consumer.py 102, 105); counted up to the timeout of the call
ClockAdvances ==
    /\ pc = "poll"
    /\ elapsed < effTimeout
    /\ elapsed' = elapsed + 1
    /\ UNCHANGED <<messages, polled, consMetricVars, lastPoll>>
    /\ StreamFrame

\* poll returns a _PARTITION_EOF event at once: _poll_single gives None and
\* the loop goes round (consumer.py 76-79, 113-114)
PollEof ==
    /\ pc = "poll"
    /\ KeepPolling(messages, effSize, elapsed, effTimeout)
    /\ lastPoll' = "eof"
    /\ UNCHANGED <<pollVars, consMetricVars>>
    /\ StreamFrame

\* poll returns at once a message of the stream that does not deserialize
\* (consumer.py 121-131); its offset is not followed
StreamUndeserializable ==
    /\ pc = "poll"
    /\ KeepPolling(messages, effSize, elapsed, effTimeout)
    /\ \E p \in Partitions :
          messages' = SkipUndeserializable(messages, [p |-> p, off |-> pos[p]])
    /\ deserialization_errors' =
          IF deserialization_errors < MaxCounted
          THEN deserialization_errors + 1 ELSE deserialization_errors
    /\ lastPoll' = "undeserializable"
    /\ UNCHANGED <<elapsed, polled, messages_consumed>>
    /\ StreamFrame

\* one call of consume_batch(n, t), with any arguments, is followed to its end
CallOnStream ==
    /\ pc = "cb_idle"
    /\ CallConsumeBatch

NextConsumeLive ==
    \/ CallOnStream
    \/ PollValid
    \/ PollNone
    \/ PollEof
    \/ StreamUndeserializable
    \/ ClockAdvances
    \/ ReturnBatch

\* the clock goes on, and the thread in consume_batch takes its next step
SpecConsumeLive ==
    /\ InitConsume
    /\ [][NextConsumeLive]_vars
    /\ WF_vars(ClockAdvances)
    /\ WF_vars(ReturnBatch)

(***************************************************************************)
(* APIClient.call_batch and its retrying session (api_client.py 34-50,     *)
(* 131-191).  The session mounts HTTPAdapter(max_retries=Retry(...)); the  *)
(* adapter resends a request as urllib3's Retry object allows.             *)
(***************************************************************************)
StatusCodes == {200, 400, 404, 413, 429, 500, 501, 502, 503, 504}

\* what one HTTP attempt can end with: a response (status, and whether it
\* carries a Retry-After header), a connection failure, or a timeout
Responses ==
    [kind : {"status"}, status : StatusCodes, retryAfter : BOOLEAN]
    \cup [kind : {"connfail", "timeout"}, status : {0}, retryAfter : {FALSE}]

\* status_forcelist=[429, 500, 502, 503, 504] (api_client.py 42)
StatusForcelist == {429, 500, 502, 503, 504}

\* Retry(...) is built without respect_retry_after_header, which defaults to
\* True: a Retry-After header is honoured on Retry.RETRY_AFTER_STATUS_CODES
RetryAfterStatusCodes == {413, 429, 503}

\* (variant: the configured count is taken as the number of attempts)
RetryBudget_Attempts(cfg) == cfg - 1

\* total=self.config.api_retry_count (api_client.py 40): the retries allowed
RetryBudget(cfg) == cfg

\* Retry.is_retry for a POST, which allowed_methods admits (api_client.py 43):
\* a forcelist status, or (while total is nonzero) a Retry-After header on one
\* of the Retry-After status codes
IsRetry(resp, total) ==
    \/ resp.status \in StatusForcelist
    \/ /\ total # 0
       /\ resp.retryAfter
       /\ resp.status \in RetryAfterStatusCodes

\* whether the adapter asks the Retry object for another attempt
WantsRetry(resp, total) == resp.kind # "status" \/ IsRetry(resp, total)

\* Retry.increment() lowers total by one; is_exhausted() is total < 0
RetryExhausted(total) == total - 1 < 0

\* response.raise_for_status() raises for 4xx and 5xx (api_client.py 150)
RaisesForStatus(status) == status >= 400 /\ status < 600

\* record_api_call + return of one call_batch invocation
ReturnFromCall(success, ret) ==
    /\ api_calls' = api_calls + 1
    /\ api_errors' = RecordApiErrors(api_errors, success)
    /\ callRet' = ret
    /\ apiPc' = "returned"

\* call_batch is entered: session.post starts with a fresh Retry
CallBatch ==
    /\ apiPc \in {"idle", "returned"}
    /\ api_calls < MaxCalls
    /\ apiPc' = "sending"
    /\ retryTotal' = RetryBudget(api_retry_count)
    /\ attempts' = 0
    /\ respLog' = <<>>
    /\ UNCHANGED <<api_retry_count, callRet>>
    /\ UNCHANGED <<bridgeVars, metricApiVars, pwVars, unitVars>>

\* an attempt fails retryably and retries remain: the request is sent again
AttemptRetried ==
    /\ apiPc = "sending"
    /\ \E resp \in Responses :
          /\ WantsRetry(resp, retryTotal)
          /\ ~RetryExhausted(retryTotal)
          /\ respLog' = Append(respLog, resp)
    /\ attempts' = attempts + 1
    /\ retryTotal' = retryTotal - 1
    /\ UNCHANGED <<apiPc, api_retry_count, callRet>>
    /\ UNCHANGED <<bridgeVars, metricApiVars, pwVars, unitVars>>

\* an attempt fails retryably and no retry remains: MaxRetryError, which
\* requests raises as a RequestException; call_batch returns None
\* (api_client.py 173-191)
AttemptExhausted ==
    /\ apiPc = "sending"
    /\ \E resp \in Responses :
          /\ WantsRetry(resp, retryTotal)
          /\ RetryExhausted(retryTotal)
          /\ respLog' = Append(respLog, resp)
    /\ attempts' = attempts + 1
    /\ retryTotal' = retryTotal - 1
    /\ ReturnFromCall(FALSE, NoneVal)
    /\ UNCHANGED api_retry_count
    /\ UNCHANGED <<bridgeVars, pwVars, unitVars>>

\* the response is handed to call_batch and raise_for_status raises HTTPError
AttemptHttpError ==
    /\ apiPc = "sending"
    /\ \E resp \in Responses :
          /\ ~WantsRetry(resp, retryTotal)
          /\ RaisesForStatus(resp.status)
          /\ respLog' = Append(respLog, resp)
    /\ attempts' = attempts + 1
    /\ ReturnFromCall(FALSE, NoneVal)
    /\ UNCHANGED <<api_retry_count, retryTotal>>
    /\ UNCHANGED <<bridgeVars, pwVars, unitVars>>

\* the response is handed to call_batch with a success status: the body is
\* normalised and returned (api_client.py 152-171)
AttemptOk ==
    /\ apiPc = "sending"
    /\ \E resp \in Responses :
          /\ ~WantsRetry(resp, retryTotal)
          /\ ~RaisesForStatus(resp.status)
          /\ respLog' = Append(respLog, resp)
    /\ attempts' = attempts + 1
    /\ \E body \in Bodies(1) : ReturnFromCall(TRUE, NormalizeBatchResponse(body))
    /\ UNCHANGED <<api_retry_count, retryTotal>>
    /\ UNCHANGED <<bridgeVars, pwVars, unitVars>>

InitApi ==
    /\ InitUnitsIdle
    /\ pc = "api_only"
    /\ batch_size = 1
    /\ batch_timeout = 1
    /\ InitBridgeState
    /\ InitUnconnected
    /\ InitProducerIdle
    /\ apiPc = "idle"
    /\ api_retry_count \in 0 .. MaxRetryCount
    /\ retryTotal = 0
    /\ attempts = 0
    /\ respLog = <<>>
    /\ callRet = NoneVal

NextApi ==
    \/ CallBatch
    \/ AttemptRetried
    \/ AttemptExhausted
    \/ AttemptHttpError
    \/ AttemptOk

SpecApi == InitApi /\ [][NextApi]_vars

(***************************************************************************)
(* KafkaProducerWrapper on its own (producer.py 62-190): a connected       *)
(* producer whose caller produces single records with the bridge's key,    *)
(* produces batches and flushes.                                           *)
(***************************************************************************)
\* the values tried for the two fields of a source record: absent, null,
\* empty, zero, and a normal value
ObjectIds == {Absent, Null, StrV(""), IntV("0"), StrV("ZTF18")}
Candids == {Absent, Null, StrV(""), IntV("0"), IntV("7")}
SourceRecords == [objectId : ObjectIds, candid : Candids]

\* positions at which the caller may start another call on the wrapper
BetweenCalls == {"idle", "produced", "produce_raised", "batch_returned",
                 "flushed", "connected", "dlq_skipped", "dlq_queued",
                 "dlq_logged", "dlq_raised"}

\* the messages of the client's queue still waiting for their delivery report
PendingOf(d) == {i \in 1 .. Len(d) : d[i] = "pending"}

\* the states the queue can be in after the client served delivery reports
\* for some of the waiting messages (producer.poll(0), producer.flush)
Resolutions(d) ==
    {e \in [1 .. Len(d) -> {"pending", "delivered", "failed"}] :
        \A i \in 1 .. Len(d) : d[i] # "pending" => e[i] = d[i]}

\* (variant: a failed delivery is counted as produced as well)
DeliveryCallback_CountsBoth(err, c) ==
    IF err THEN [produced |-> c.produced + 1, failures |-> c.failures + 1]
    ELSE [c EXCEPT !.produced = @ + 1]

\* _delivery_callback(err, msg): a failure is appended to _delivery_failures,
\* a success goes to record_produced (producer.py 62-79, logger.py 148-150)
DeliveryCallback(err, c) ==
    IF err THEN [c EXCEPT !.failures = @ + 1]
    ELSE [c EXCEPT !.produced = @ + 1]

\* the callbacks run for the messages resolved between queue states d and e
RECURSIVE ServeCallbacks(_, _, _, _)
ServeCallbacks(d, e, i, c) ==
    IF i > Len(d) THEN c
    ELSE ServeCallbacks(d, e, i + 1,
             IF d[i] = "pending" /\ e[i] # "pending"
             THEN DeliveryCallback(e[i] = "failed", c) ELSE c)

\* the client serves delivery reports: queue state d becomes e
Serve(d, e) ==
    LET c == ServeCallbacks(d, e, 1, [produced |-> messages_produced,
                                      failures |-> delivery_failures])
    IN  /\ delivery' = e
        /\ messages_produced' = c.produced
        /\ delivery_failures' = c.failures
        /\ pending' = Cardinality(PendingOf(e))

\* produce(data, key=key) goes through: the message is serialized, the key
\* added `if key:`, producer.produce enqueues it and producer.poll(0) serves
\* what reports are ready (producer.py 101-121)
ProduceAccepted ==
    /\ producer = "open"
    /\ Len(delivery) < MaxMessages
    /\ \E e \in Resolutions(Append(delivery, "pending")) :
          Serve(Append(delivery, "pending"), e)

\* the caller moves on to another call: the record and key of the produce
\* call before it are no longer at hand
ForgetLast ==
    /\ lastRec' = [objectId |-> Absent, candid |-> Absent]
    /\ lastKey' = Absent

\* the bridge's call: producer.produce(enriched, key=self._extract_key(source))
\* (bridge.py 176-178)
ProduceKeyed ==
    /\ pwPc \in BetweenCalls
    /\ ProduceAccepted
    /\ \E rec \in SourceRecords :
          /\ lastRec' = rec
          /\ lastKey' = KwargsKey(ExtractKey(rec))
    /\ pwPc' = "produced"
    /\ UNCHANGED <<batchLen, batchLog, queued, batchRet>>
    /\ UNCHANGED <<prodIdx, flushRemaining>>
    /\ UNCHANGED <<cfgVars, runVars, callVars, pollVars, topicVars, procVars,
                   consMetricVars, iterVars, ghostVars, lifeVars, stopVars>>
    /\ UNCHANGED <<metricApiVars, apiVars, unitVars>>

\* produce raises (serialization failed, or the client's queue is full): the
\* error is logged and re-raised to the caller (producer.py 123-129)
ProduceKeyedRaises ==
    /\ pwPc \in BetweenCalls
    /\ pwPc' = "produce_raised"
    /\ ForgetLast
    /\ UNCHANGED <<batchLen, batchLog, queued, batchRet, delivery,
                   messages_produced, delivery_failures>>
    /\ UNCHANGED bridgeVars
    /\ UNCHANGED <<metricApiVars, apiVars, unitVars>>

\* (variant: a record whose produce raised is counted as queued)
CountQueued_All(q, failed) == q + 1

\* `queued += 1` is reached only when produce returned (producer.py 151-159)
CountQueued(q, failed) == IF failed THEN q ELSE q + 1

\* produce_batch(messages) is entered, without a key_extractor
\* (producer.py 147-148)
CallProduceBatch ==
    /\ pwPc \in BetweenCalls
    /\ \E n \in 0 .. MaxBatchSize : batchLen' = n
    /\ batchLog' = <<>>
    /\ queued' = 0
    /\ batchRet' = NoneArg
    /\ pwPc' = "in_batch"
    /\ ForgetLast
    /\ UNCHANGED <<delivery, messages_produced, delivery_failures>>
    /\ UNCHANGED bridgeVars
    /\ UNCHANGED <<metricApiVars, apiVars, unitVars>>

\* one turn of `for msg in messages` in which produce returns
\* (producer.py 150-154)
BatchProduceOk ==
    /\ pwPc = "in_batch"
    /\ Len(batchLog) < batchLen
    /\ ProduceAccepted
    /\ batchLog' = Append(batchLog, "queued")
    /\ queued' = CountQueued(queued, FALSE)
    /\ UNCHANGED <<pwPc, batchLen, batchRet, lastRec, lastKey>>
    /\ UNCHANGED <<prodIdx, flushRemaining>>
    /\ UNCHANGED <<cfgVars, runVars, callVars, pollVars, topicVars, procVars,
                   consMetricVars, iterVars, ghostVars, lifeVars, stopVars>>
    /\ UNCHANGED <<metricApiVars, apiVars, unitVars>>

\* one turn in which produce raises: the exception is caught and logged, the
\* loop goes on (producer.py 155-159)
BatchProduceRaises ==
    /\ pwPc = "in_batch"
    /\ Len(batchLog) < batchLen
    /\ batchLog' = Append(batchLog, "raised")
    /\ queued' = CountQueued(queued, TRUE)
    /\ UNCHANGED <<pwPc, batchLen, batchRet, delivery, messages_produced,
                   delivery_failures, lastRec, lastKey>>
    /\ UNCHANGED bridgeVars
    /\ UNCHANGED <<metricApiVars, apiVars, unitVars>>

\* the loop is over: `return queued` (producer.py 161-168)
BatchReturn ==
    /\ pwPc = "in_batch"
    /\ Len(batchLog) = batchLen
    /\ batchRet' = queued
    /\ pwPc' = "batch_returned"
    /\ UNCHANGED <<batchLen, batchLog, queued, delivery, messages_produced,
                   delivery_failures, lastRec, lastKey>>
    /\ UNCHANGED bridgeVars
    /\ UNCHANGED <<metricApiVars, apiVars, unitVars>>

\* flush(timeout): the client serves reports until its queue is empty or the
\* timeout passes, and returns how many messages still wait (producer.py
\* 170-190)
FlushCall ==
    /\ pwPc \in BetweenCalls
    /\ producer = "open"
    /\ \E e \in Resolutions(delivery) :
          /\ Serve(delivery, e)
          /\ flushRemaining' = Cardinality(PendingOf(e))
    /\ pwPc' = "flushed"
    /\ ForgetLast
    /\ UNCHANGED <<batchLen, batchLog, queued, batchRet>>
    /\ UNCHANGED prodIdx
    /\ UNCHANGED <<cfgVars, runVars, callVars, pollVars, topicVars, procVars,
                   consMetricVars, iterVars, ghostVars, lifeVars, stopVars>>
    /\ UNCHANGED <<metricApiVars, apiVars, unitVars>>

InitProducer ==
    /\ InitUnitsIdle
    /\ pc = "producer_only"
    /\ batch_size = 1
    /\ batch_timeout = 1
    /\ InitBridgeState
    /\ consumer = "none"
    /\ producer = "open"
    /\ InitApiIdle
    /\ InitProducerIdle

NextProducer ==
    \/ ProduceKeyed
    \/ ProduceKeyedRaises
    \/ CallProduceBatch
    \/ BatchProduceOk
    \/ BatchProduceRaises
    \/ BatchReturn
    \/ FlushCall

SpecProducer == InitProducer /\ [][NextProducer]_vars

(***************************************************************************)
(* KafkaProducerWrapper.produce_to_dlq (producer.py 192-233), called on a  *)
(* wrapper that may or may not be connected, with or without a dead-letter *)
(* topic.  Every message of the client's queue is a dead-letter message.   *)
(***************************************************************************)
\* the values of DEAD_LETTER_TOPIC: unset, set to nothing, set to a topic
DeadLetterTopics == {Null, StrV(""), StrV("bridge-dlq")}

\* connect(): self.producer = Producer(kafka_config) (producer.py 38-47)
ConnectProducer ==
    /\ pwPc \in BetweenCalls
    /\ producer = "none"
    /\ producer' = "open"
    /\ pwPc' = "connected"
    /\ UNCHANGED <<batchLen, batchLog, queued, batchRet, delivery,
                   messages_produced, delivery_failures, lastRec, lastKey>>
    /\ UNCHANGED <<raised, consumer, session, closeLog>>
    /\ UNCHANGED <<cfgVars, runVars, callVars, pollVars, topicVars, procVars,
                   prodVars, consMetricVars, iterVars, ghostVars, stopVars>>
    /\ UNCHANGED <<metricApiVars, apiVars, unitVars>>

\* what produce_to_dlq leaves untouched whatever its outcome
DlqFrame ==
    /\ UNCHANGED <<batchLen, batchLog, queued, batchRet, messages_produced,
                   delivery_failures, lastRec, lastKey>>
    /\ UNCHANGED <<prodIdx, flushRemaining>>
    /\ UNCHANGED <<cfgVars, runVars, callVars, pollVars, topicVars, procVars,
                   consMetricVars, iterVars, ghostVars, lifeVars, stopVars>>
    /\ UNCHANGED <<metricApiVars, apiVars, unitVars>>

\* `if not self.config.dead_letter_topic: return` (producer.py 205-206)
ProduceToDlqSkipped ==
    /\ pwPc \in BetweenCalls
    /\ ~Truthy(dead_letter_topic)
    /\ pwPc' = "dlq_skipped"
    /\ UNCHANGED <<delivery, pending>>
    /\ DlqFrame

\* `if not self.producer: raise RuntimeError(...)`, ahead of the try block
\* (producer.py 208-209)
ProduceToDlqNotConnected ==
    /\ pwPc \in BetweenCalls
    /\ Truthy(dead_letter_topic)
    /\ producer = "none"
    /\ pwPc' = "dlq_raised"
    /\ UNCHANGED <<delivery, pending>>
    /\ DlqFrame

\* the try block goes through: the message is serialized and enqueued on the
\* dead-letter topic, with the delivery callback (producer.py 218-228)
ProduceToDlqQueued ==
    /\ pwPc \in BetweenCalls
    /\ Truthy(dead_letter_topic)
    /\ producer = "open"
    /\ Len(delivery) < MaxMessages
    /\ delivery' = Append(delivery, "pending")
    /\ pending' = pending + 1
    /\ pwPc' = "dlq_queued"
    /\ DlqFrame

\* serialize or producer.produce raises inside the try block: the exception
\* is caught and logged (producer.py 229-233)
ProduceToDlqLogged ==
    /\ pwPc \in BetweenCalls
    /\ Truthy(dead_letter_topic)
    /\ producer = "open"
    /\ pwPc' = "dlq_logged"
    /\ UNCHANGED <<delivery, pending>>
    /\ DlqFrame

InitDlq ==
    /\ pc = "producer_only"
    /\ batch_size = 1
    /\ batch_timeout = 1
    /\ InitBridgeState
    /\ InitUnconnected
    /\ InitApiIdle
    /\ InitProducerIdle
    /\ dead_letter_topic \in DeadLetterTopics
    /\ InitBuildIdle
    /\ InitSerIdle
    /\ InitHealthIdle
    /\ InitIncrIdle
    /\ InitLogIdle
    /\ InitRunnerIdle
    /\ InitExtIdle

NextDlq ==
    \/ ConnectProducer
    \/ ProduceToDlqSkipped
    \/ ProduceToDlqNotConnected
    \/ ProduceToDlqQueued
    \/ ProduceToDlqLogged
    \/ FlushCall

SpecDlq == InitDlq /\ [][NextDlq]_vars

(***************************************************************************)
(* KafkaBridge(config) (bridge.py 23-67, config.py 129-147): construction  *)
(* of the bridge from any configuration, followed by run() up to the end   *)
(* of connect().                                                           *)
(***************************************************************************)
InputFormats == {"avro", "json", "auto", "AVRO", "xml"}
OutputFormats == {"avro", "json", "auto", "csv"}
SchemaPaths == {Null, StrV(""), StrV("/app/schemas/alert.avsc")}
ApiUrls == {"", "http://localhost:8000"}
ApiEndpoints == {"", "/preprocess/batch"}

Configs ==
    [input_format : InputFormats, output_format : OutputFormats,
     avro_schema_path : SchemaPaths, output_avro_schema_path : SchemaPaths,
     api_url : ApiUrls, api_endpoint : ApiEndpoints]

\* (variant: the output schema path is not asked for)
Validate_NoOutputSchema(c) ==
    IF c.input_format \notin {"avro", "json", "auto"} THEN "input_format"
    ELSE IF c.output_format \notin {"avro", "json"} THEN "output_format"
    ELSE IF c.input_format = "avro" /\ ~Truthy(c.avro_schema_path)
    THEN "avro_schema_path"
    ELSE IF c.api_url = "" THEN "api_url"
    ELSE IF c.api_endpoint = "" THEN "api_endpoint"
    ELSE "ok"

\* BridgeConfig.validate: the first test that fails raises ValueError, named
\* here by the field it complains about; "ok" when none fails
\* (config.py 129-147)
Validate(c) ==
    IF c.input_format \notin {"avro", "json", "auto"} THEN "input_format"
    ELSE IF c.output_format \notin {"avro", "json"} THEN "output_format"
    ELSE IF c.input_format = "avro" /\ ~Truthy(c.avro_schema_path)
    THEN "avro_schema_path"
    ELSE IF c.output_format = "avro" /\ ~Truthy(c.output_avro_schema_path)
    THEN "output_avro_schema_path"
    ELSE IF c.api_url = "" THEN "api_url"
    ELSE IF c.api_endpoint = "" THEN "api_endpoint"
    ELSE "ok"

\* MessageSerializer.__init__ builds an AvroSerializer, which reads the schema
\* file (serializers.py 185-186, 192-193, bridge.py 35-49)
LoadsSchema(c) ==
    \/ c.input_format \in {"avro", "auto"} /\ Truthy(c.avro_schema_path)
    \/ c.output_format = "avro" /\ Truthy(c.output_avro_schema_path)

\* what a step of __init__ leaves untouched
ConstructFrame ==
    /\ UNCHANGED <<running, cRunning, consumer, producer, session, closeLog>>
    /\ UNCHANGED <<cfgVars, callVars, pollVars, topicVars, procVars, prodVars,
                   consMetricVars, iterVars, ghostVars, stopVars>>
    /\ UNCHANGED <<metricApiVars, apiVars, pwVars, unitVars>>

\* self.config.validate() raises: __init__ ends at line 30
ConstructInvalid ==
    /\ pc = "unbuilt"
    /\ Validate(config) # "ok"
    /\ raised' = "invalid_config"
    /\ pc' = "init_raised"
    /\ ConstructFrame

\* validation passed but a schema file is missing or unreadable: AvroSerializer
\* raises out of __init__ (serializers.py 33-34, 43-44)
ConstructSchemaError ==
    /\ pc = "unbuilt"
    /\ Validate(config) = "ok"
    /\ LoadsSchema(config)
    /\ raised' = "schema_load"
    /\ pc' = "init_raised"
    /\ ConstructFrame

\* __init__ runs to its end: logger, serializers, consumer and producer
\* wrappers and API client exist, nothing is connected (bridge.py 29-67)
ConstructOk ==
    /\ pc = "unbuilt"
    /\ Validate(config) = "ok"
    /\ pc' = "created"
    /\ UNCHANGED raised
    /\ ConstructFrame

InitConstruct ==
    /\ pc = "unbuilt"
    /\ batch_size = 1
    /\ batch_timeout = 1
    /\ InitBridgeState
    /\ InitUnconnected
    /\ InitApiIdle
    /\ InitProducerIdle
    /\ InitDlqIdle
    /\ InitSerIdle
    /\ InitHealthIdle
    /\ InitIncrIdle
    /\ InitLogIdle
    /\ InitRunnerIdle
    /\ InitExtIdle
    /\ config \in Configs

NextConfig ==
    \/ ConstructInvalid
    \/ ConstructSchemaError
    \/ ConstructOk
    \/ Run
    \/ ConnectOk
    \/ ConnectFails
    \/ Close

SpecConfig == InitConstruct /\ [][NextConfig]_vars

(***************************************************************************)
(* JsonSerializer (serializers.py 105-151): serialize a record, then       *)
(* deserialize what came out.                                              *)
(***************************************************************************)
\* a JSON document, as json.dumps writes it and json.loads reads it
JsonNull == [j |-> "null"]
JsonBool(b) == [j |-> "boolean", b |-> b]
JsonNumber(n) == [j |-> "number", n |-> n]
JsonString(cs) == [j |-> "string", cs |-> cs]
JsonObject(m) == [j |-> "object", m |-> m]
JsonArray(xs) == [j |-> "array", xs |-> xs]
\* json.dumps raised TypeError
JsonRaised == [j |-> "raised"]

\* obj.get(k)
DictGet(m, k) == IF k \in DOMAIN m THEN m[k] ELSE PyNone

\* _handle_bytes_for_json (serializers.py 105-117)
RECURSIVE HandleBytesForJson(_)
HandleBytesForJson(obj) ==
    IF obj.t = "bytes" THEN
        PyDict([k \in {"_type", "_encoding", "_value"} |->
                   CASE k = "_type" -> StrBytes
                     [] k = "_encoding" -> StrBase64
                     [] k = "_value" -> PyStr(B64Encode(obj.bs))])
    ELSE IF obj.t = "dict" THEN
        PyDict([k \in DOMAIN obj.m |-> HandleBytesForJson(obj.m[k])])
    ELSE IF obj.t = "list" THEN
        PyList([i \in 1 .. Len(obj.xs) |-> HandleBytesForJson(obj.xs[i])])
    ELSE obj

\* json.dumps(v): the document of a value; bytes are not JSON serializable
RECURSIVE JsonDumps(_)
JsonDumps(v) ==
    CASE v.t = "NoneType" -> JsonNull
      [] v.t = "bool" -> JsonBool(v.b)
      [] v.t = "number" -> JsonNumber(v.n)
      [] v.t = "str" -> JsonString(v.cs)
      [] v.t = "bytes" -> JsonRaised
      [] v.t = "dict" ->
            LET kids == [k \in DOMAIN v.m |-> JsonDumps(v.m[k])]
            IN  IF \E k \in DOMAIN kids : kids[k] = JsonRaised
                THEN JsonRaised ELSE JsonObject(kids)
      [] v.t = "list" ->
            LET kids == [i \in 1 .. Len(v.xs) |-> JsonDumps(v.xs[i])]
            IN  IF \E i \in DOMAIN kids : kids[i] = JsonRaised
                THEN JsonRaised ELSE JsonArray(kids)

\* json.loads(text): the value of a document
RECURSIVE JsonLoads(_)
JsonLoads(d) ==
    CASE d.j = "null" -> PyNone
      [] d.j = "boolean" -> PyBool(d.b)
      [] d.j = "number" -> PyNum(d.n)
      [] d.j = "string" -> PyStr(d.cs)
      [] d.j = "object" -> PyDict([k \in DOMAIN d.m |-> JsonLoads(d.m[k])])
      [] d.j = "array" ->
            PyList([i \in 1 .. Len(d.xs) |-> JsonLoads(d.xs[i])])

\* _handle_bytes_from_json (serializers.py 119-127): a dict whose _type is
\* "bytes" and whose _encoding is "base64" is replaced by the decoding of
\* obj["_value"], which raises KeyError when the key is missing
RECURSIVE HandleBytesFromJson(_)
HandleBytesFromJson(obj) ==
    IF obj.t = "dict" THEN
        IF /\ DictGet(obj.m, "_type") = StrBytes
           /\ DictGet(obj.m, "_encoding") = StrBase64
        THEN IF "_value" \in DOMAIN obj.m
             THEN B64Decode(obj.m["_value"]) ELSE PyRaised
        ELSE LET kids == [k \in DOMAIN obj.m |-> HandleBytesFromJson(obj.m[k])]
             IN  IF \E k \in DOMAIN kids : kids[k] = PyRaised
                 THEN PyRaised ELSE PyDict(kids)
    ELSE IF obj.t = "list" THEN
        LET kids == [i \in 1 .. Len(obj.xs) |-> HandleBytesFromJson(obj.xs[i])]
        IN  IF \E i \in DOMAIN kids : kids[i] = PyRaised
            THEN PyRaised ELSE PyList(kids)
    ELSE obj

\* JsonSerializer.serialize (serializers.py 141-151)
JsonSerialize(data) == JsonDumps(HandleBytesForJson(data))

\* JsonSerializer.deserialize (serializers.py 129-139)
JsonDeserialize(doc) == HandleBytesFromJson(JsonLoads(doc))

\* ordered sequences hold at most MaxListLen items
MaxListLen == 2

\* the values records are built from
StrHi == PyStr(<<"h", "i">>)
StrAGk == PyStr(<<"a", "G", "k", "=">>)
BytesValues ==
    {PyBytes(<<>>), PyBytes(<<104>>), PyBytes(<<104, 105>>),
     PyBytes(<<0, 255, 16>>)}
Scalars ==
    {PyNone, PyBool(TRUE), PyBool(FALSE), PyNum(0), PyNum(7), PyStr(<<>>),
     StrHi, StrBytes, StrBase64, StrAGk}
ListItems == {PyNone, PyNum(7), StrHi, PyBytes(<<104, 105>>)}
Lists ==
    {PyList(xs) : xs \in UNION {[1 .. n -> ListItems] : n \in 0 .. MaxListLen}}
\* mappings over the three keys the tagged form of a bytes value uses
TagKeySets == (SUBSET {"_type", "_encoding", "_value"}) \ {{}}
TagValues == {StrBytes, StrBase64, StrAGk, PyNum(1), PyBytes(<<104>>)}
TagLikeDicts == {PyDict(m) : m \in UNION {[K -> TagValues] : K \in TagKeySets}}
\* a cutout as the alert schema has it: a file name and the image octets
Cutouts ==
    {PyDict([k \in {"fileName", "stampData"} |->
                IF k = "fileName" THEN StrHi ELSE b]) : b \in BytesValues}
FieldValues ==
    Scalars \cup BytesValues \cup Lists \cup TagLikeDicts \cup Cutouts
JsonRecords ==
    {PyDict(<<>>)}
    \cup TagLikeDicts
    \cup {PyDict([k \in {"payload"} |-> v]) : v \in FieldValues}
    \cup {PyDict([k \in {"payload", "candid"} |->
                     IF k = "payload" THEN v ELSE c]) :
             v \in FieldValues, c \in {PyNone, PyNum(7)}}

\* what a serializer call leaves untouched
SerializerFrame ==
    /\ UNCHANGED <<bridgeVars, metricApiVars, apiVars, pwVars>>
    /\ UNCHANGED <<dlqVars, buildVars, healthVars, incrVars, logVars,
                   runnerVars, extVars>>

\* serialize(record)
Serialize ==
    /\ serPc = "called"
    /\ wire' = JsonSerialize(record)
    /\ serPc' = "serialized"
    /\ UNCHANGED <<record, restored, skip_cutouts, again>>
    /\ SerializerFrame

\* deserialize(wire)
Deserialize ==
    /\ serPc = "serialized"
    /\ wire # JsonRaised
    /\ restored' = JsonDeserialize(wire)
    /\ serPc' = "deserialized"
    /\ UNCHANGED <<record, wire, skip_cutouts, again>>
    /\ SerializerFrame

InitJson ==
    /\ pc = "serializer_only"
    /\ batch_size = 1
    /\ batch_timeout = 1
    /\ InitBridgeState
    /\ InitUnconnected
    /\ InitApiIdle
    /\ InitProducerIdle
    /\ InitDlqIdle
    /\ InitBuildIdle
    /\ InitHealthIdle
    /\ InitIncrIdle
    /\ InitLogIdle
    /\ InitRunnerIdle
    /\ InitExtIdle
    /\ serPc = "called"
    /\ record \in JsonRecords
    /\ wire = PyNone
    /\ restored = PyNone
    /\ skip_cutouts = TRUE
    /\ again = PyNone

NextJson ==
    \/ Serialize
    \/ Deserialize

SpecJson == InitJson /\ [][NextJson]_vars

(***************************************************************************)
(* MessageSerializer._strip_cutouts (serializers.py 195-205), applied to a *)
(* record and then to its own result.                                      *)
(***************************************************************************)
\* cutout_fields (serializers.py 204)
CutoutFields == {"cutoutScience", "cutoutTemplate", "cutoutDifference"}

\* (variant: the cutouts are removed whatever the toggle says)
StripCutouts_Always(skip, data) ==
    PyDict([k \in DOMAIN data.m \ CutoutFields |-> data.m[k]])

\* _strip_cutouts(data)
StripCutouts(skip, data) ==
    IF ~skip THEN data
    ELSE PyDict([k \in DOMAIN data.m \ CutoutFields |-> data.m[k]])

\* the alerts tried: any of the three cutouts present (as a cutout or null),
\* with or without a candid and a nested candidate that has a key named
\* like a cutout
AlertKeys == CutoutFields \cup {"candid", "candidate"}
Candidate == PyDict([k \in {"jd", "cutoutScience"} |-> PyNum(7)])
StampCutout ==
    PyDict([f \in {"fileName", "stampData"} |->
               IF f = "fileName" THEN StrHi ELSE PyBytes(<<104, 105>>)])
AlertValues(k) ==
    CASE k = "candid" -> {PyNum(7)}
      [] k = "candidate" -> {Candidate}
      [] OTHER -> {PyNone, StampCutout}
Alerts ==
    {PyDict(m) :
        m \in UNION {{f \in [K -> {PyNone, StampCutout, PyNum(7), Candidate}] :
                         \A k \in K : f[k] \in AlertValues(k)} :
                     K \in SUBSET AlertKeys}}

\* result = self._strip_cutouts(record)
Strip ==
    /\ serPc = "called"
    /\ restored' = StripCutouts(skip_cutouts, record)
    /\ serPc' = "stripped"
    /\ UNCHANGED <<record, wire, skip_cutouts, again>>
    /\ SerializerFrame

\* self._strip_cutouts(result)
StripAgain ==
    /\ serPc = "stripped"
    /\ again' = StripCutouts(skip_cutouts, restored)
    /\ serPc' = "stripped_twice"
    /\ UNCHANGED <<record, wire, restored, skip_cutouts>>
    /\ SerializerFrame

InitStrip ==
    /\ pc = "serializer_only"
    /\ batch_size = 1
    /\ batch_timeout = 1
    /\ InitBridgeState
    /\ InitUnconnected
    /\ InitApiIdle
    /\ InitProducerIdle
    /\ InitDlqIdle
    /\ InitBuildIdle
    /\ InitHealthIdle
    /\ InitIncrIdle
    /\ InitLogIdle
    /\ InitRunnerIdle
    /\ InitExtIdle
    /\ serPc = "called"
    /\ record \in Alerts
    /\ skip_cutouts \in BOOLEAN
    /\ wire = PyNone
    /\ restored = PyNone
    /\ again = PyNone

NextStrip ==
    \/ Strip
    \/ StripAgain

SpecStrip == InitStrip /\ [][NextStrip]_vars

(***************************************************************************)
(* APIClient.health_check (api_client.py 52-68) over the session of        *)
(* _create_session, whose adapter retries GET as it retries POST           *)
(* (allowed_methods, api_client.py 43).                                    *)
(***************************************************************************)
\* `return response.status_code == 200` (api_client.py 61)
HealthyStatus(status) == status = 200

\* health_check is entered: session.get starts with a fresh Retry
HealthCheck ==
    /\ apiPc \in {"idle", "health_returned"}
    /\ apiPc' = "sending"
    /\ retryTotal' = RetryBudget(api_retry_count)
    /\ attempts' = 0
    /\ respLog' = <<>>
    /\ UNCHANGED <<api_retry_count, callRet>>
    /\ UNCHANGED <<bridgeVars, metricApiVars, pwVars, unitVars>>

\* the adapter hands a response back: its status is compared with 200
HealthAnswered ==
    /\ apiPc = "sending"
    /\ \E resp \in Responses :
          /\ ~WantsRetry(resp, retryTotal)
          /\ respLog' = Append(respLog, resp)
          /\ healthRet' = HealthyStatus(resp.status)
    /\ attempts' = attempts + 1
    /\ apiPc' = "health_returned"
    /\ UNCHANGED <<api_retry_count, retryTotal, callRet>>
    /\ UNCHANGED <<bridgeVars, metricApiVars, pwVars>>
    /\ UNCHANGED <<dlqVars, buildVars, serVars, incrVars, logVars,
                   runnerVars, extVars>>

\* the last attempt allowed fails retryably: session.get raises, the
\* exception is caught and logged, False is returned (api_client.py 62-68)
HealthExhausted ==
    /\ apiPc = "sending"
    /\ \E resp \in Responses :
          /\ WantsRetry(resp, retryTotal)
          /\ RetryExhausted(retryTotal)
          /\ respLog' = Append(respLog, resp)
    /\ attempts' = attempts + 1
    /\ retryTotal' = retryTotal - 1
    /\ healthRet' = FALSE
    /\ apiPc' = "health_returned"
    /\ UNCHANGED <<api_retry_count, callRet>>
    /\ UNCHANGED <<bridgeVars, metricApiVars, pwVars>>
    /\ UNCHANGED <<dlqVars, buildVars, serVars, incrVars, logVars,
                   runnerVars, extVars>>

InitHealth ==
    /\ pc = "api_only"
    /\ batch_size = 1
    /\ batch_timeout = 1
    /\ InitBridgeState
    /\ InitUnconnected
    /\ InitProducerIdle
    /\ InitDlqIdle
    /\ InitBuildIdle
    /\ InitSerIdle
    /\ InitHealthIdle
    /\ InitIncrIdle
    /\ InitLogIdle
    /\ InitRunnerIdle
    /\ InitExtIdle
    /\ apiPc = "idle"
    /\ api_retry_count \in 0 .. MaxRetryCount
    /\ retryTotal = 0
    /\ attempts = 0
    /\ respLog = <<>>
    /\ callRet = NoneVal

NextHealth ==
    \/ HealthCheck
    \/ AttemptRetried
    \/ HealthAnswered
    \/ HealthExhausted

SpecHealth == InitHealth /\ [][NextHealth]_vars

(***************************************************************************)
(* BridgeLogger's counters (logger.py 144-160) updated from the main loop  *)
(* and from the delivery callback.  `self.metrics[k] += n` reads the       *)
(* counter, adds, and writes it back; the two contexts may be interleaved  *)
(* between any two of these steps.                                         *)
(***************************************************************************)
\* each context makes at most MaxRecorded record_* calls
MaxRecorded == 3

\* self.metrics[k]
Metric(k) ==
    CASE k = "messages_consumed" -> messages_consumed
      [] k = "messages_produced" -> messages_produced
      [] k = "api_calls" -> api_calls
      [] k = "api_errors" -> api_errors
      [] k = "deserialization_errors" -> deserialization_errors

\* self.metrics[k] = v
StoreMetric(k, v) ==
    /\ messages_consumed' = IF k = "messages_consumed" THEN v
                            ELSE messages_consumed
    /\ messages_produced' = IF k = "messages_produced" THEN v
                            ELSE messages_produced
    /\ api_calls' = IF k = "api_calls" THEN v ELSE api_calls
    /\ api_errors' = IF k = "api_errors" THEN v ELSE api_errors
    /\ deserialization_errors' = IF k = "deserialization_errors" THEN v
                                 ELSE deserialization_errors

\* what an update of the metrics leaves untouched
MetricsFrame ==
    /\ UNCHANGED <<cfgVars, runVars, callVars, pollVars, topicVars, procVars,
                   prodVars, iterVars, ghostVars, lifeVars, stopVars>>
    /\ UNCHANGED <<pwPc, batchLen, batchLog, queued, batchRet, delivery,
                   lastRec, lastKey>>
    /\ UNCHANGED <<apiVars, dlqVars, buildVars, serVars, healthVars, logVars,
                   runnerVars, extVars>>

\* the record_* calls of the main loop (consumer.py 119, 122; api_client.py
\* 154, 174, 184) and the counters each one increments, in order
MainCalls == {"record_consumed", "record_deserialization_error",
              "record_api_call_success", "record_api_call_failure"}
KeysOf(call) ==
    CASE call = "record_consumed" -> <<"messages_consumed">>
      [] call = "record_deserialization_error" -> <<"deserialization_errors">>
      [] call = "record_api_call_success" -> <<"api_calls">>
      [] call = "record_api_call_failure" -> <<"api_calls", "api_errors">>

\* (variant: the callback counts into the counter of the consumer)
RecordProducedKeys_Consumed == <<"messages_consumed">>

\* record_produced, the one call the delivery callback makes (producer.py 73,
\* logger.py 148-150)
RecordProducedKeys == <<"messages_produced">>

\* the main loop enters a record_* call
MainRecord ==
    /\ incr["main"].pc = "idle"
    /\ incr["main"].calls < MaxRecorded
    /\ \E call \in MainCalls :
          incr' = [incr EXCEPT !["main"] =
                      [pc |-> "load", todo |-> KeysOf(call), tmp |-> 0,
                       calls |-> @.calls + 1]]
    /\ UNCHANGED <<recorded, delivery_failures>>
    /\ UNCHANGED <<consMetricVars, metricApiVars, messages_produced>>
    /\ MetricsFrame

\* the delivery callback runs for an acknowledged message: record_produced
CallbackAcked ==
    /\ incr["callback"].pc = "idle"
    /\ incr["callback"].calls < MaxRecorded
    /\ incr' = [incr EXCEPT !["callback"] =
                   [pc |-> "load", todo |-> RecordProducedKeys, tmp |-> 0,
                    calls |-> @.calls + 1]]
    /\ UNCHANGED <<recorded, delivery_failures>>
    /\ UNCHANGED <<consMetricVars, metricApiVars, messages_produced>>
    /\ MetricsFrame

\* the delivery callback runs for a failed delivery: the failure is appended
\* to _delivery_failures and no counter is touched (producer.py 64-71)
CallbackFailed ==
    /\ incr["callback"].pc = "idle"
    /\ incr["callback"].calls < MaxRecorded
    /\ incr' = [incr EXCEPT !["callback"].calls = @ + 1]
    /\ delivery_failures' = delivery_failures + 1
    /\ UNCHANGED recorded
    /\ UNCHANGED <<consMetricVars, metricApiVars, messages_produced>>
    /\ MetricsFrame

\* `+=`, first half: the counter is read
LoadMetric ==
    \E c \in Contexts :
        /\ incr[c].pc = "load"
        /\ incr' = [incr EXCEPT ![c].pc = "loaded",
                                ![c].tmp = Metric(Head(incr[c].todo))]
        /\ UNCHANGED <<recorded, delivery_failures>>
        /\ UNCHANGED <<consMetricVars, metricApiVars, messages_produced>>
        /\ MetricsFrame

\* `+=`, second half: the sum is written back; the call goes on to its next
\* counter or returns
IncrementMetric ==
    \E c \in Contexts :
        /\ incr[c].pc = "loaded"
        /\ StoreMetric(Head(incr[c].todo), incr[c].tmp + 1)
        /\ recorded' = [recorded EXCEPT ![Head(incr[c].todo)] = @ + 1]
        /\ incr' = [incr EXCEPT
                       ![c].todo = Tail(@),
                       ![c].tmp = 0,
                       ![c].pc = IF Len(incr[c].todo) > 1 THEN "load"
                                 ELSE "idle"]
        /\ UNCHANGED delivery_failures
        /\ MetricsFrame

InitMetrics ==
    /\ pc = "metrics_only"
    /\ batch_size = 1
    /\ batch_timeout = 1
    /\ InitBridgeState
    /\ InitUnconnected
    /\ InitApiIdle
    /\ InitProducerIdle
    /\ InitDlqIdle
    /\ InitBuildIdle
    /\ InitSerIdle
    /\ InitHealthIdle
    /\ InitIncrIdle
    /\ InitLogIdle
    /\ InitRunnerIdle
    /\ InitExtIdle

NextMetrics ==
    \/ MainRecord
    \/ CallbackAcked
    \/ CallbackFailed
    \/ LoadMetric
    \/ IncrementMetric

SpecMetrics == InitMetrics /\ [][NextMetrics]_vars

(***************************************************************************)
(* The periodic metrics of run() (bridge.py 197-220): batch after batch is *)
(* consumed and handled, and after each one the counter of consumed        *)
(* messages is tested.                                                     *)
(***************************************************************************)
\* the loop is followed until MaxConsumed messages have been consumed
MaxConsumed == 210

\* `self.logger.metrics["messages_consumed"] % 100 == 0` (bridge.py 219)
LogEvery == 100
LogsMetrics(consumed) == consumed % LogEvery = 0

\* what a step of the loop leaves untouched here
PeriodicFrame ==
    /\ UNCHANGED <<cfgVars, running, cRunning, callVars, pollVars, topicVars,
                   procVars, prodVars, deserialization_errors, iterVars,
                   ghostVars, lifeVars, stopVars>>
    /\ UNCHANGED <<metricApiVars, apiVars, pwVars>>
    /\ UNCHANGED <<dlqVars, buildVars, serVars, healthVars, incrVars,
                   runnerVars, extVars>>

\* iter_batches yields a batch of n deserialized messages, each of them
\* counted by record_consumed (consumer.py 116-119, 172-175)
ConsumeBatchOf ==
    /\ pc = "iter_loop"
    /\ \E n \in 1 .. batch_size :
          /\ messages_consumed + n <= MaxConsumed
          /\ messages_consumed' = messages_consumed + n
    /\ pc' = "loop_body"
    /\ UNCHANGED <<lastLogAt, dropped>>
    /\ PeriodicFrame

\* the batch is processed, produced and committed (bridge.py 208-216)
BatchForwarded ==
    /\ pc = "loop_body"
    /\ dropped' = FALSE
    /\ pc' = "metrics"
    /\ UNCHANGED <<messages_consumed, lastLogAt>>
    /\ PeriodicFrame

\* _process_batch returns no results: nothing is produced or committed
\* (bridge.py 130-135, 210)
BatchDropped ==
    /\ pc = "loop_body"
    /\ dropped' = TRUE
    /\ pc' = "metrics"
    /\ UNCHANGED <<messages_consumed, lastLogAt>>
    /\ PeriodicFrame

\* `if ... % 100 == 0: self.logger.log_metrics()` (bridge.py 218-220)
PeriodicMetrics ==
    /\ pc = "metrics"
    /\ lastLogAt' = IF LogsMetrics(messages_consumed) THEN messages_consumed
                    ELSE lastLogAt
    /\ pc' = "iter_loop"
    /\ UNCHANGED <<messages_consumed, dropped>>
    /\ PeriodicFrame

InitPeriodic ==
    /\ pc = "iter_loop"
    /\ batch_size \in 1 .. MaxBatchSize
    /\ batch_timeout = 1
    /\ InitBridgeState
    /\ InitUnconnected
    /\ InitApiIdle
    /\ InitProducerIdle
    /\ InitUnitsIdle

NextPeriodic ==
    \/ ConsumeBatchOf
    \/ BatchForwarded
    \/ BatchDropped
    \/ PeriodicMetrics

SpecPeriodic == InitPeriodic /\ [][NextPeriodic]_vars

(***************************************************************************)
(* _read_json_from_file and _read_json_from_stdin (runner.py 203-271) on   *)
(* the same content.  The content is a text of lines; what matters of a    *)
(* line is its JSON tokens (white space between tokens means nothing to    *)
(* json.loads).  The documents are numbers, an object and arrays.          *)
(***************************************************************************)
\* a content has at most MaxLines lines
MaxLines == 3

\* the object written {"key": "value"}, one token here
KeyValueObject == PyDict([k \in {"key"} |-> StrV("value")])

ParseFailed == [ok |-> FALSE, val |-> PyNone, rest |-> <<>>]

\* json's recursive descent over the tokens: a value, then what follows it
RECURSIVE ParseValue(_)
RECURSIVE ParseItems(_, _, _)
ParseValue(ts) ==
    IF ts = <<>> THEN ParseFailed
    ELSE CASE Head(ts) = "1" -> [ok |-> TRUE, val |-> PyNum(1), rest |-> Tail(ts)]
           [] Head(ts) = "2" -> [ok |-> TRUE, val |-> PyNum(2), rest |-> Tail(ts)]
           [] Head(ts) = "{...}" ->
                 [ok |-> TRUE, val |-> KeyValueObject, rest |-> Tail(ts)]
           [] Head(ts) = "[" -> ParseItems(Tail(ts), <<>>, TRUE)
           [] OTHER -> ParseFailed

\* the items of an array after its "[" (first: no item read yet)
ParseItems(ts, acc, first) ==
    IF ts = <<>> THEN ParseFailed
    ELSE IF first /\ Head(ts) = "]"
    THEN [ok |-> TRUE, val |-> PyList(acc), rest |-> Tail(ts)]
    ELSE LET r == ParseValue(ts) IN
         IF ~r.ok \/ r.rest = <<>> THEN ParseFailed
         ELSE IF Head(r.rest) = "]"
         THEN [ok |-> TRUE, val |-> PyList(Append(acc, r.val)),
               rest |-> Tail(r.rest)]
         ELSE IF Head(r.rest) = ","
         THEN ParseItems(Tail(r.rest), Append(acc, r.val), FALSE)
         ELSE ParseFailed

\* json.loads(text): one value and nothing after it, else JSONDecodeError
LoadsTokens(ts) ==
    LET r == ParseValue(ts) IN
    IF r.ok /\ r.rest = <<>> THEN r ELSE ParseFailed

\* the tokens of a text of several lines
RECURSIVE TokensOf(_)
TokensOf(lines) ==
    IF lines = <<>> THEN <<>> ELSE Head(lines) \o TokensOf(Tail(lines))

\* text.strip(): white space, blank lines included, goes from both ends
RECURSIVE StripLeft(_)
StripLeft(lines) ==
    IF lines # <<>> /\ Head(lines) = <<>> THEN StripLeft(Tail(lines))
    ELSE lines
RECURSIVE StripRight(_)
StripRight(lines) ==
    IF lines # <<>> /\ lines[Len(lines)] = <<>>
    THEN StripRight(SubSeq(lines, 1, Len(lines) - 1))
    ELSE lines
StripText(lines) == StripRight(StripLeft(lines))

\* the JSONL loop of _read_json_from_file (runner.py 230-237)
RECURSIVE FileLines(_)
FileLines(lines) ==
    IF lines = <<>> THEN <<>>
    ELSE LET line == Head(lines)
             d == LoadsTokens(line)
         IN  IF line # <<>> /\ d.ok THEN <<d.val>> \o FileLines(Tail(lines))
             ELSE FileLines(Tail(lines))

\* _read_json_from_file (runner.py 213-237), all it yields
ReadJsonFromFile(text) ==
    LET c == StripText(text) IN
    IF c = <<>> THEN <<>>
    ELSE LET data == LoadsTokens(TokensOf(c)) IN
         IF data.ok
         THEN IF data.val.t = "list" THEN data.val.xs ELSE <<data.val>>
         ELSE FileLines(c)

\* the JSONL loop of _read_json_from_stdin (runner.py 264-271)
RECURSIVE StdinLines(_)
StdinLines(lines) ==
    IF lines = <<>> THEN <<>>
    ELSE LET line == Head(lines)
             d == LoadsTokens(line)
         IN  IF line # <<>> /\ d.ok THEN <<d.val>> \o StdinLines(Tail(lines))
             ELSE StdinLines(Tail(lines))

\* (variant: an array read from stdin is yielded whole)
ReadJsonFromStdin_WholeArray(text) ==
    LET c == StripText(text) IN
    IF c = <<>> THEN <<>>
    ELSE LET data == LoadsTokens(TokensOf(c)) IN
         IF data.ok THEN <<data.val>> ELSE StdinLines(c)

\* _read_json_from_stdin (runner.py 248-271), all it yields
ReadJsonFromStdin(text) ==
    LET c == StripText(text) IN
    IF c = <<>> THEN <<>>
    ELSE LET data == LoadsTokens(TokensOf(c)) IN
         IF data.ok
         THEN IF data.val.t = "list" THEN data.val.xs ELSE <<data.val>>
         ELSE StdinLines(c)

\* the lines tried: blank, a number, an object, arrays, the pieces of an
\* array spread over lines, and a line that is no JSON
TextLines ==
    {<<>>, <<"1">>, <<"{...}">>, <<"[", "1", ",", "2", "]">>, <<"[", "]">>,
     <<"[">>, <<"2", ",">>, <<"]">>, <<"{...}", "{...}">>, <<"oops">>}
Texts == UNION {[1 .. n -> TextLines] : n \in 0 .. MaxLines}

\* the bridge package is not touched
CoreFrame ==
    /\ UNCHANGED <<bridgeVars, metricApiVars, apiVars, pwVars>>
    /\ UNCHANGED <<dlqVars, buildVars, serVars, healthVars, incrVars, logVars>>

\* what a reader of runner.py leaves untouched
RunnerFrame ==
    /\ CoreFrame
    /\ UNCHANGED extVars

\* list(_read_json_from_file(path)) for a file holding the content
ReadFromFile ==
    /\ ~fromFile.read
    /\ fromFile' = [read |-> TRUE, items |-> ReadJsonFromFile(content)]
    /\ UNCHANGED <<content, fromStdin, avroVars>>
    /\ RunnerFrame

\* list(_read_json_from_stdin()) with the content on stdin
ReadFromStdin ==
    /\ ~fromStdin.read
    /\ fromStdin' = [read |-> TRUE, items |-> ReadJsonFromStdin(content)]
    /\ UNCHANGED <<content, fromFile, avroVars>>
    /\ RunnerFrame

InitOthersIdle ==
    /\ batch_size = 1
    /\ batch_timeout = 1
    /\ InitBridgeState
    /\ InitUnconnected
    /\ InitApiIdle
    /\ InitProducerIdle
    /\ InitDlqIdle
    /\ InitBuildIdle
    /\ InitSerIdle
    /\ InitHealthIdle
    /\ InitIncrIdle
    /\ InitLogIdle

InitReadJson ==
    /\ pc = "runner_only"
    /\ InitOthersIdle
    /\ InitAvroIdle
    /\ InitExtIdle
    /\ content \in Texts
    /\ fromFile = NotRead
    /\ fromStdin = NotRead

NextReadJson ==
    \/ ReadFromFile
    \/ ReadFromStdin

SpecReadJson == InitReadJson /\ [][NextReadJson]_vars

(***************************************************************************)
(* is_avro_file (runner.py 165-200): the argument is None (stdin) or a     *)
(* path; behind a path there is a file that opens or does not, and the     *)
(* octets it holds.  Names are sequences of characters.                    *)
(***************************************************************************)
\* header = f.read(HeaderLen)
HeaderLen == 4

\* ".avro"
DotAvro == <<".", "a", "v", "r", "o">>

\* b"Obj"
AvroMagic == <<79, 98, 106>>

\* str.endswith / bytes.startswith
EndsWith(s, suffix) ==
    /\ Len(suffix) <= Len(s)
    /\ SubSeq(s, Len(s) - Len(suffix) + 1, Len(s)) = suffix
StartsWith(s, prefix) ==
    /\ Len(prefix) <= Len(s)
    /\ SubSeq(s, 1, Len(prefix)) = prefix

\* f.read(n): the first n octets, fewer when the file is shorter
ReadOctets(octets, n) ==
    IF Len(octets) <= n THEN octets ELSE SubSeq(octets, 1, n)

\* (variant: the file is opened before its name is looked at)
IsAvroFile_OpenFirst(in) ==
    IF in.stdin THEN FALSE
    ELSE IF ~in.readable THEN FALSE
    ELSE \/ EndsWith(in.name, DotAvro)
         \/ StartsWith(ReadOctets(in.octets, HeaderLen), AvroMagic)

\* is_avro_file(file_path_or_stdin)
IsAvroFile(in) ==
    IF in.stdin
    THEN IF in.tell = "raises" THEN FALSE
         ELSE IF in.tell = "zero" THEN FALSE
         ELSE FALSE
    ELSE IF EndsWith(in.name, DotAvro) THEN TRUE
    ELSE IF ~in.readable THEN FALSE
    ELSE IF StartsWith(ReadOctets(in.octets, HeaderLen), AvroMagic) THEN TRUE
    ELSE FALSE

\* test.avro, test.bin, test.json, .avro, avro, testavro, test.avro.bak,
\* test.AVRO, test.avr and the empty name
FileNames ==
    {<<"t", "e", "s", "t", ".", "a", "v", "r", "o">>,
     <<"t", "e", "s", "t", ".", "b", "i", "n">>,
     <<"t", "e", "s", "t", ".", "j", "s", "o", "n">>,
     <<".", "a", "v", "r", "o">>,
     <<"a", "v", "r", "o">>,
     <<"t", "e", "s", "t", "a", "v", "r", "o">>,
     <<"t", "e", "s", "t", ".", "a", "v", "r", "o", ".", "b", "a", "k">>,
     <<"t", "e", "s", "t", ".", "A", "V", "R", "O">>,
     <<"t", "e", "s", "t", ".", "a", "v", "r">>,
     <<>>}

\* what a file holds: nothing, pieces of the magic, Obj, Obj\x01,
\* Obj\x01d, obj\x01, {"key, \x01Obj, OObj and dummy
FileOctets ==
    {<<>>, <<79>>, <<79, 98>>, <<79, 98, 106>>, <<79, 98, 106, 1>>,
     <<79, 98, 106, 1, 100>>, <<111, 98, 106, 1>>,
     <<123, 34, 107, 101, 121>>, <<1, 79, 98, 106>>, <<79, 79, 98, 106>>,
     <<100, 117, 109, 109, 121>>}

\* sys.stdin.tell(): 0, a later position, or an exception (not seekable)
StdinTells == {"zero", "later", "raises"}

AvroInputs ==
    {[stdin |-> TRUE, tell |-> t, name |-> <<>>, readable |-> FALSE,
      octets |-> <<>>] : t \in StdinTells}
    \cup {[stdin |-> FALSE, tell |-> "zero", name |-> n, readable |-> TRUE,
           octets |-> o] : n \in FileNames, o \in FileOctets}
    \cup {[stdin |-> FALSE, tell |-> "zero", name |-> n, readable |-> FALSE,
           octets |-> <<>>] : n \in FileNames}

\* is_avro_file(None)
AskStdin ==
    /\ ~isAvro.asked
    /\ input.stdin
    /\ isAvro' = [asked |-> TRUE, ret |-> IsAvroFile(input)]
    /\ UNCHANGED <<input, readVars>>
    /\ RunnerFrame

\* is_avro_file(path)
AskPath ==
    /\ ~isAvro.asked
    /\ ~input.stdin
    /\ isAvro' = [asked |-> TRUE, ret |-> IsAvroFile(input)]
    /\ UNCHANGED <<input, readVars>>
    /\ RunnerFrame

InitIsAvro ==
    /\ pc = "runner_only"
    /\ InitOthersIdle
    /\ InitReadIdle
    /\ InitExtIdle
    /\ input \in AvroInputs
    /\ isAvro = NotAsked

NextIsAvro ==
    \/ AskStdin
    \/ AskPath

SpecIsAvro == InitIsAvro /\ [][NextIsAvro]_vars

(***************************************************************************)
(* load_preprocessing (runner.py 41-109).  The file at PREPROCESSING_PATH  *)
(* exists or not; executing it as a module raises or leaves a module whose *)
(* attributes, in the order of dir(module), are of these kinds:            *)
(*   function     a callable that is no class and has no pre_processing    *)
(*   value        neither callable nor with a pre_processing attribute     *)
(*   class_ok     a class with a pre_processing method, built without      *)
(*                arguments                                                *)
(*   class_args   such a class whose construction without arguments raises *)
(*   class_attr   a class whose pre_processing attribute is not callable   *)
(*   class_plain  a class without a pre_processing attribute               *)
(*   instance     an object with a pre_processing method                   *)
(***************************************************************************)
\* "pre_processing"
PreProcessingName ==
    <<"p", "r", "e", "_", "p", "r", "o", "c", "e", "s", "s", "i", "n", "g">>

\* dir(module): Processor, _Hidden, pre_processing, worker (sorted)
AttrNames == << <<"P">>, <<"_", "H">>, PreProcessingName, <<"w">> >>

AttrKinds ==
    {"absent", "function", "value", "class_ok", "class_args", "class_attr",
     "class_plain", "instance"}

\* isinstance(attr, type), callable(attr), hasattr(attr, "pre_processing"),
\* callable(getattr(attr, "pre_processing")), and whether attr() returns
IsClass(kind) == kind \in {"class_ok", "class_args", "class_attr", "class_plain"}
IsCallable(kind) == kind = "function" \/ IsClass(kind)
HasPreProcessing(kind) ==
    kind \in {"class_ok", "class_args", "class_attr", "instance"}
MethodCallable(kind) == kind \in {"class_ok", "class_args", "instance"}
Instantiates(kind) == kind \in {"class_ok", "class_attr"}

Found(how, name) == [out |-> "callable", how |-> how, attr |-> name]
Raised(exc) == [out |-> exc, how |-> "none", attr |-> <<>>]

\* the body of the loop over dir(module) (runner.py 77-98) for one name
ProbeAttr(name, kind) ==
    IF kind = "absent" \/ StartsWith(name, <<"_">>) THEN NotLoaded
    ELSE IF IsClass(kind) /\ HasPreProcessing(kind) /\ Instantiates(kind)
            /\ MethodCallable(kind)
    THEN Found("bound_method", name)
    ELSE IF IsClass(kind) /\ HasPreProcessing(kind) /\ ~Instantiates(kind)
            /\ MethodCallable(kind)
    THEN Found("class_method", name)
    ELSE IF HasPreProcessing(kind) /\ MethodCallable(kind)
    THEN Found("instance_method", name)
    ELSE NotLoaded

\* the loop: the first name of dir(module), from index i on, that returns
RECURSIVE ProbeFrom(_, _)
ProbeFrom(attrs, i) ==
    IF i > Len(AttrNames) THEN NotLoaded
    ELSE LET r == ProbeAttr(AttrNames[i], attrs[i]) IN
         IF r.out = "callable" THEN r ELSE ProbeFrom(attrs, i + 1)

\* the index of pre_processing in dir(module)
PreProcessingAt == CHOOSE i \in 1 .. Len(AttrNames) : AttrNames[i] = PreProcessingName

\* load_preprocessing()
LoadPreprocessing(p) ==
    IF ~p.exists THEN Raised("FileNotFoundError")
    ELSE IF p.raises THEN Raised("exec_module")
    ELSE LET k == p.attrs[PreProcessingAt] IN
         IF IsCallable(k) /\ ~IsClass(k)
         THEN Found("function", PreProcessingName)
         ELSE IF ProbeFrom(p.attrs, 1).out = "callable"
         THEN ProbeFrom(p.attrs, 1)
         ELSE IF IsCallable(k) THEN Found("variable", PreProcessingName)
         ELSE Raised("ValueError")

\* the modules tried; a private name holds nothing, a class or an instance
Modules ==
    {a \in [1 .. Len(AttrNames) -> AttrKinds] :
        a[2] \in {"absent", "class_ok", "instance"}}
PreprocessingFiles ==
    {NoPreprocessing}
    \cup {[exists |-> TRUE, raises |-> TRUE, attrs |-> <<>>]}
    \cup {[exists |-> TRUE, raises |-> FALSE, attrs |-> a] : a \in Modules}

\* load_preprocessing() with no file at PREPROCESSING_PATH
LoadMissing ==
    /\ loaded = NotLoaded
    /\ ~preprocessing.exists
    /\ loaded' = LoadPreprocessing(preprocessing)
    /\ UNCHANGED <<preprocessing, runnerVars, OthersOfLoad>>
    /\ CoreFrame

\* load_preprocessing() with a file at PREPROCESSING_PATH
LoadModule ==
    /\ loaded = NotLoaded
    /\ preprocessing.exists
    /\ loaded' = LoadPreprocessing(preprocessing)
    /\ UNCHANGED <<preprocessing, runnerVars, OthersOfLoad>>
    /\ CoreFrame

InitLoad ==
    /\ pc = "runner_only"
    /\ InitOthersIdle
    /\ InitRunnerIdle
    /\ IdleButLoad
    /\ preprocessing \in PreprocessingFiles
    /\ loaded = NotLoaded

NextLoad ==
    \/ LoadMissing
    \/ LoadModule

SpecLoad == InitLoad /\ [][NextLoad]_vars

(***************************************************************************)
(* MessageSerializer.deserialize (serializers.py 207-236) as the consumer  *)
(* calls it (consumer.py 116-131).  A payload is given by what its bytes   *)
(* are to the two decoders: valid UTF-8 or not, the JSON document they     *)
(* spell or none, and what fastavro's schemaless reader makes of them      *)
(* (a record, or an error).                                                *)
(***************************************************************************)
\* json_deserializer.deserialize(data): UnicodeDecodeError, JSONDecodeError,
\* or JsonSerializer.deserialize of the document
DecodeError == [t |-> "decode_error"]
JsonOutcome(p) ==
    IF ~p.utf8 \/ p.json = NotJson THEN DecodeError
    ELSE JsonDeserialize(p.json)

\* avro_deserializer.deserialize(data), when there is an Avro deserializer;
\* ValueError when there is none (serializers.py 218-221, 229-231)
AvroOutcome(s, p) == IF ~s.avro THEN PyRaised ELSE p.avro

\* _strip_cutouts(result) for whatever result is: data.items() raises
\* AttributeError on a value that is no dict
StripResult(skip, result) ==
    IF ~skip THEN result
    ELSE IF result.t = "dict" THEN StripCutouts(skip, result)
    ELSE PyRaised

\* MessageSerializer.deserialize(data)
MessageDeserialize(s, p) ==
    LET result ==
          CASE s.input_format = "avro" -> AvroOutcome(s, p)
            [] s.input_format = "json" ->
                  IF JsonOutcome(p) = DecodeError THEN PyRaised
                  ELSE JsonOutcome(p)
            [] s.input_format = "auto" ->
                  IF JsonOutcome(p) = DecodeError THEN AvroOutcome(s, p)
                  ELSE JsonOutcome(p)
            [] OTHER -> PyRaised
    IN  IF result = PyRaised THEN PyRaised
        ELSE StripResult(s.skip_cutouts, result)

\* the input serializers run() can build (bridge.py 35-41), and one with a
\* format validate() would have refused
InputSerializers ==
    [input_format : {"avro", "json", "auto", "xml"}, avro : BOOLEAN,
     skip_cutouts : BOOLEAN]

\* JSON documents a message can spell: objects (empty, an alert with a
\* cutout, a tagged bytes value, a tag without its value), an array, a
\* number, a string and null
AlertDocument ==
    JsonObject([k \in {"candid", "cutoutScience"} |->
                   IF k = "candid" THEN JsonNumber(7) ELSE JsonNull])
TaggedDocument(keys) ==
    JsonObject([k \in keys |->
                   CASE k = "_type" -> JsonString(StrBytes.cs)
                     [] k = "_encoding" -> JsonString(StrBase64.cs)
                     [] k = "_value" -> JsonString(StrAGk.cs)])
JsonDocuments ==
    {JsonObject(<<>>), AlertDocument,
     TaggedDocument({"_type", "_encoding", "_value"}),
     TaggedDocument({"_type", "_encoding"}),
     JsonArray(<<JsonNumber(1), JsonNumber(2)>>), JsonNumber(7),
     JsonString(StrHi.cs), JsonNull}

\* what the schemaless reader returns for a record schema
AvroRecord ==
    PyDict([k \in {"candid", "cutoutScience"} |->
               IF k = "candid" THEN PyNum(7) ELSE PyBytes(<<104, 105>>)])

Payloads ==
    {[utf8 |-> TRUE, json |-> d, avro |-> a] :
        d \in JsonDocuments \cup {NotJson}, a \in {AvroRecord, PyRaised}}
    \cup {[utf8 |-> FALSE, json |-> NotJson, avro |-> a] :
             a \in {AvroRecord, PyRaised}}

\* the try branch of consume_batch: deserialize returned, and what it
\* returned joins the batch with its message (consumer.py 116-119)
DeserializeAppended ==
    /\ decoded = NotDecoded
    /\ MessageDeserialize(serializer, payload) # PyRaised
    /\ decoded' = MessageDeserialize(serializer, payload)
    /\ taken' = Append(taken, MessageDeserialize(serializer, payload))
    /\ UNCHANGED <<serializer, payload, runnerVars, OthersOfMsg>>
    /\ CoreFrame

\* the except branch of consume_batch: deserialize raised and the message
\* is left out (consumer.py 121-131)
DeserializeSkipped ==
    /\ decoded = NotDecoded
    /\ MessageDeserialize(serializer, payload) = PyRaised
    /\ decoded' = PyRaised
    /\ UNCHANGED <<serializer, payload, taken, runnerVars, OthersOfMsg>>
    /\ CoreFrame

InitDeserialize ==
    /\ pc = "serializer_only"
    /\ InitOthersIdle
    /\ InitRunnerIdle
    /\ IdleButMsg
    /\ serializer \in InputSerializers
    /\ payload \in Payloads
    /\ decoded = NotDecoded
    /\ taken = <<>>

NextDeserialize ==
    \/ DeserializeAppended
    \/ DeserializeSkipped

SpecDeserialize == InitDeserialize /\ [][NextDeserialize]_vars

(***************************************************************************)
(* KafkaProcessor._process_batch (kafka_processor.py 113-160) on one batch *)
(* as consume_batch hands it over: messages in fetch order, the offsets of *)
(* each partition ascending from its committed position.                   *)
(***************************************************************************)
\* a batch holds at most MaxProcessed messages
MaxProcessed == 3

\* the offset of the i-th message: the messages of its partition before it
OffsetIn(shape, i) == Cardinality({j \in 1 .. (i - 1) : shape[j].p = shape[i].p})

\* the batches: any partition and any outcome of pre_processing per message
BatchShapes ==
    UNION {[1 .. n -> [p : Partitions, ok : BOOLEAN]] : n \in 0 .. MaxProcessed}
ProcessorBatches ==
    {[i \in 1 .. Len(shape) |->
         [p |-> shape[i].p, off |-> OffsetIn(shape, i), ok |-> shape[i].ok]] :
        shape \in BatchShapes}

\* the message as Kafka knows it
KafkaMessage(entry) == [p |-> entry.p, off |-> entry.off]

ProcessorFrame ==
    /\ UNCHANGED <<runnerVars, OthersOfKp>>
    /\ CoreFrame

\* _process_batch(batch) is entered; `if not batch: return`
\* (kafka_processor.py 119-123)
ProcessBatchCalled ==
    /\ kpPc = "idle"
    /\ kpPc' = IF kpBatch = <<>> THEN "returned" ELSE "loop"
    /\ UNCHANGED <<kpBatch, kpIdx, kpProduced, kpToCommit, kpCommitted>>
    /\ ProcessorFrame

\* a turn of the for loop whose try block goes through: pre_processing,
\* produce, and both appends (kafka_processor.py 125-136)
HandleMessageOk ==
    /\ kpPc = "loop"
    /\ kpIdx < Len(kpBatch)
    /\ kpBatch[kpIdx + 1].ok
    /\ kpIdx' = kpIdx + 1
    /\ kpProduced' = Append(kpProduced, KafkaMessage(kpBatch[kpIdx + 1]))
    /\ kpToCommit' = Append(kpToCommit, KafkaMessage(kpBatch[kpIdx + 1]))
    /\ UNCHANGED <<kpPc, kpBatch, kpCommitted>>
    /\ ProcessorFrame

\* a turn of the for loop whose pre_processing call raises: the error is
\* logged and the loop continues (kafka_processor.py 138-147)
HandleMessageRaises ==
    /\ kpPc = "loop"
    /\ kpIdx < Len(kpBatch)
    /\ ~kpBatch[kpIdx + 1].ok
    /\ kpIdx' = kpIdx + 1
    /\ UNCHANGED <<kpPc, kpBatch, kpProduced, kpToCommit, kpCommitted>>
    /\ ProcessorFrame

\* after the loop: flush if there are results (kafka_processor.py 149-156);
\* results and messages_to_commit grow together
FlushProcessed ==
    /\ kpPc = "loop"
    /\ kpIdx = Len(kpBatch)
    /\ kpPc' = IF kpToCommit # <<>> THEN "commit" ELSE "returned"
    /\ UNCHANGED <<kpBatch, kpIdx, kpProduced, kpToCommit, kpCommitted>>
    /\ ProcessorFrame

\* self.consumer.commit(messages_to_commit[-1]) (kafka_processor.py 158-160)
CommitProcessed ==
    /\ kpPc = "commit"
    /\ kpCommitted' = CommitOffsets(kpCommitted, CommitTarget(kpToCommit))
    /\ kpPc' = "returned"
    /\ UNCHANGED <<kpBatch, kpIdx, kpProduced, kpToCommit>>
    /\ ProcessorFrame

InitProcessor ==
    /\ pc = "runner_only"
    /\ InitOthersIdle
    /\ InitRunnerIdle
    /\ IdleButKp
    /\ kpPc = "idle"
    /\ kpBatch \in ProcessorBatches
    /\ kpIdx = 0
    /\ kpProduced = <<>>
    /\ kpToCommit = <<>>
    /\ kpCommitted = [p \in Partitions |-> 0]

NextProcessor ==
    \/ ProcessBatchCalled
    \/ HandleMessageOk
    \/ HandleMessageRaises
    \/ FlushProcessed
    \/ CommitProcessed

SpecProcessor == InitProcessor /\ [][NextProcessor]_vars

(***************************************************************************)
(* The build service (build_scripts/api.py).  The handlers run on the      *)
(* event loop; run_build runs on a worker thread (as a background task of  *)
(* POST /build, or in the executor for POST /build/sync), statement by     *)
(* statement beside them.  build_id is a fresh value per request.          *)
(***************************************************************************)
\* requests to build that the service receives
MaxBuilds == 2

BuildIds == 1 .. MaxBuilds

\* builds[build_id] as start_build and build_sync store it (api.py 184-194,
\* 248-258); of the record, the status, finished_at (set or None) and error
NewRecord(status) == [status |-> status, finished_at |-> FALSE, error |-> FALSE]

\* the build ids not handed out yet
Fresh(id) == id \notin DOMAIN task

\* builds[build_id] = {...}; del builds[build_id]
Stored(store, id, rec) ==
    [k \in DOMAIN store \cup {id} |-> IF k = id THEN rec ELSE store[k]]
Removed(store, id) == [k \in DOMAIN store \ {id} |-> store[k]]

\* builds[build_id][field] = value, for a record that is there
Assigned(store, id, field, value) ==
    [store EXCEPT ![id] = [@ EXCEPT ![field] = value]]

\* run_build moves on to `to` for build id
Moved(id, to) == task' = [task EXCEPT ![id] = to]

BuildsFrame ==
    /\ UNCHANGED <<runnerVars, OthersOfSvc>>
    /\ CoreFrame

\* POST /build: the record is stored PENDING and run_build is added as a
\* background task (api.py 174-203)
StartBuild ==
    /\ \E id \in BuildIds :
          /\ Fresh(id)
          /\ builds' = Stored(builds, id, NewRecord("pending"))
          /\ task' = Stored(task, id, "queued")
    /\ UNCHANGED deleted
    /\ BuildsFrame

\* POST /build/sync: the record is stored RUNNING and run_build is sent to
\* the executor (api.py 238-262)
BuildSync ==
    /\ \E id \in BuildIds :
          /\ Fresh(id)
          /\ builds' = Stored(builds, id, NewRecord("running"))
          /\ task' = Stored(task, id, "queued")
    /\ UNCHANGED deleted
    /\ BuildsFrame

\* DELETE /builds/{build_id} for a record of the store (api.py 228-234)
DeleteBuild ==
    /\ \E id \in DOMAIN builds :
          /\ builds' = Removed(builds, id)
          /\ deleted' = deleted \cup {id}
    /\ UNCHANGED task
    /\ BuildsFrame

\* run_build begins: builds[build_id]["status"] = RUNNING, outside the try
\* (api.py 107-108); KeyError leaves run_build when the record is gone
RunBuildStarts ==
    /\ \E id \in DOMAIN task :
          /\ task[id] = "queued"
          /\ IF id \in DOMAIN builds
             THEN /\ builds' = Assigned(builds, id, "status", "running")
                  /\ Moved(id, "mlflow")
             ELSE /\ UNCHANGED builds
                  /\ Moved(id, "key_error")
    /\ UNCHANGED deleted
    /\ BuildsFrame

\* get_model_info_from_mlflow returns and the image name is noted in the
\* record (api.py 112-123); KeyError there goes to the except block
MlflowReturns ==
    /\ \E id \in DOMAIN task :
          /\ task[id] = "mlflow"
          /\ Moved(id, IF id \in DOMAIN builds THEN "building" ELSE "except")
    /\ UNCHANGED <<builds, deleted>>
    /\ BuildsFrame

\* get_model_info_from_mlflow raises (api.py 112, 142)
MlflowRaises ==
    /\ \E id \in DOMAIN task :
          /\ task[id] = "mlflow"
          /\ Moved(id, "except")
    /\ UNCHANGED <<builds, deleted>>
    /\ BuildsFrame

\* build_docker_image returns, full_image_name and the status SUCCESS are
\* stored (api.py 126-138)
MarkSuccess ==
    /\ \E id \in DOMAIN task :
          /\ task[id] = "building"
          /\ IF id \in DOMAIN builds
             THEN /\ builds' = Assigned(builds, id, "status", "success")
                  /\ Moved(id, "success_stored")
             ELSE /\ UNCHANGED builds
                  /\ Moved(id, "except")
    /\ UNCHANGED deleted
    /\ BuildsFrame

\* build_docker_image raises (api.py 126, 142)
ImageBuildRaises ==
    /\ \E id \in DOMAIN task :
          /\ task[id] = "building"
          /\ Moved(id, "except")
    /\ UNCHANGED <<builds, deleted>>
    /\ BuildsFrame

\* builds[build_id]["finished_at"] = datetime.now() after SUCCESS
\* (api.py 139-140)
FinishSuccess ==
    /\ \E id \in DOMAIN task :
          /\ task[id] = "success_stored"
          /\ IF id \in DOMAIN builds
             THEN /\ builds' = Assigned(builds, id, "finished_at", TRUE)
                  /\ Moved(id, "returned")
             ELSE /\ UNCHANGED builds
                  /\ Moved(id, "except")
    /\ UNCHANGED deleted
    /\ BuildsFrame

\* except Exception: the status FAILED and the error are stored
\* (api.py 142-144); KeyError here leaves run_build
MarkFailed ==
    /\ \E id \in DOMAIN task :
          /\ task[id] = "except"
          /\ IF id \in DOMAIN builds
             THEN /\ builds' = Assigned(Assigned(builds, id, "status", "failed"),
                                        id, "error", TRUE)
                  /\ Moved(id, "failed_stored")
             ELSE /\ UNCHANGED builds
                  /\ Moved(id, "key_error")
    /\ UNCHANGED deleted
    /\ BuildsFrame

\* builds[build_id]["finished_at"] = datetime.now() after FAILED
\* (api.py 145-147)
FinishFailed ==
    /\ \E id \in DOMAIN task :
          /\ task[id] = "failed_stored"
          /\ IF id \in DOMAIN builds
             THEN /\ builds' = Assigned(builds, id, "finished_at", TRUE)
                  /\ Moved(id, "returned")
             ELSE /\ UNCHANGED builds
                  /\ Moved(id, "key_error")
    /\ UNCHANGED deleted
    /\ BuildsFrame

\* a statement of run_build, on its worker thread
RunBuildStep ==
    \/ RunBuildStarts
    \/ MlflowReturns
    \/ MlflowRaises
    \/ MarkSuccess
    \/ ImageBuildRaises
    \/ FinishSuccess
    \/ MarkFailed
    \/ FinishFailed

InitBuilds ==
    /\ pc = "service_only"
    /\ InitOthersIdle
    /\ InitRunnerIdle
    /\ IdleButSvc
    /\ builds = <<>>
    /\ task = <<>>
    /\ deleted = {}

NextBuilds ==
    \/ StartBuild
    \/ BuildSync
    \/ DeleteBuild
    \/ RunBuildStarts
    \/ MlflowReturns
    \/ MlflowRaises
    \/ MarkSuccess
    \/ ImageBuildRaises
    \/ FinishSuccess
    \/ MarkFailed
    \/ FinishFailed

\* the worker threads keep running, and the calls they make return
SpecBuilds == InitBuilds /\ [][NextBuilds]_vars /\ WF_vars(RunBuildStep)

(***************************************************************************)
(* build_docker_image (build_image.py 208-560): the preprocessing files of *)
(* a run are staged in /tmp/preprocessing-build, copied from there into    *)
(* the preprocessing directory of the build context, and removed from the  *)
(* build context after a successful docker build.  A file is a pair of its *)
(* name and the run it was downloaded for; a directory is a set of files   *)
(* with one file per name.                                                 *)
(***************************************************************************)
MaxImageBuilds == 2

RunIds == {1, 2}

PreprocessingPy == "preprocessing.py"

RequirementsTxt == "requirements.txt"

PyNames == {PreprocessingPy, "processor.py", "__init__.py"}

\* what a run holds: preprocessing.py alone or in a directory with other
\* Python files, and maybe a requirements.txt
RunArtifacts ==
    {a \in [in_dir : BOOLEAN, py : SUBSET PyNames, requirements : BOOLEAN] :
        /\ PreprocessingPy \in a.py
        /\ (~a.in_dir => a.py = {PreprocessingPy})}

\* shutil.copy of the files fs into the directory d: a file of the same
\* name is replaced, every other file of d stays
CopyInto(d, fs) ==
    {f \in d : \A g \in fs : g[1] # f[1]} \cup fs

\* Path.glob("*.py") of directory d
GlobPy(d) == {f \in d : f[1] \in PyNames}

\* the files download_preprocessing_from_mlflow and the requirements.txt
\* download fetch for run r (build_image.py 64-160, 361-379)
Downloaded(r) ==
    {<<n, r>> : n \in artifacts[r].py}
        \cup (IF artifacts[r].requirements THEN {<<RequirementsTxt, r>>}
              ELSE {})

\* /tmp/preprocessing-build after steps 1-3 for run r: mkdir(exist_ok=True)
\* keeps what is there, then the run's files are copied in (329-379)
StagedFor(r) == CopyInto(tempDir, Downloaded(r))

\* <context>/preprocessing after step 5 for run r: mkdir(exist_ok=True), every
\* *.py of the staging directory, and requirements.txt when the run has one
\* (432-448)
ContextFor(r) ==
    CopyInto(sourceDir,
             GlobPy(StagedFor(r))
                 \cup {f \in StagedFor(r) :
                          f[1] = RequirementsTxt /\ artifacts[r].requirements})

\* the clean-up after a successful docker build: every *.py and
\* requirements.txt are unlinked from <context>/preprocessing (540-550)
CleanedUp(d) == {f \in d : f[1] \notin PyNames /\ f[1] # RequirementsTxt}

CtxFrame ==
    /\ UNCHANGED <<runnerVars, OthersOfCtx>>
    /\ CoreFrame

\* build_docker_image(run_id) whose docker build succeeds
BuildImageOk ==
    /\ nBuilt < MaxImageBuilds
    /\ \E r \in RunIds :
          /\ tempDir' = StagedFor(r)
          /\ lastBuild' = [run |-> r, outcome |-> "built",
                           context |-> ContextFor(r)]
          /\ sourceDir' = CleanedUp(ContextFor(r))
    /\ nBuilt' = nBuilt + 1
    /\ UNCHANGED artifacts
    /\ CtxFrame

\* build_docker_image(run_id) whose docker build fails: CalledProcessError
\* is raised again before the clean-up (452-538)
BuildImageFails ==
    /\ nBuilt < MaxImageBuilds
    /\ \E r \in RunIds :
          /\ tempDir' = StagedFor(r)
          /\ lastBuild' = [run |-> r, outcome |-> "failed",
                           context |-> ContextFor(r)]
          /\ sourceDir' = ContextFor(r)
    /\ nBuilt' = nBuilt + 1
    /\ UNCHANGED artifacts
    /\ CtxFrame

\* build_docker_image(run_id) whose preprocessing download raises: nothing
\* has been staged yet (320-322)
DownloadRaises ==
    /\ nBuilt < MaxImageBuilds
    /\ \E r \in RunIds :
          lastBuild' = [run |-> r, outcome |-> "no_download", context |-> {}]
    /\ nBuilt' = nBuilt + 1
    /\ UNCHANGED <<artifacts, tempDir, sourceDir>>
    /\ CtxFrame

InitContext ==
    /\ pc = "image_only"
    /\ InitOthersIdle
    /\ InitRunnerIdle
    /\ IdleButCtx
    /\ artifacts \in [RunIds -> RunArtifacts]
    /\ tempDir = {}
    /\ sourceDir = {}
    /\ lastBuild = NoBuild
    /\ nBuilt = 0

NextContext ==
    \/ BuildImageOk
    \/ BuildImageFails
    \/ DownloadRaises

SpecContext == InitContext /\ [][NextContext]_vars

(***************************************************************************)
(* Properties.                                                             *)
(***************************************************************************)
\* the records of the polled messages that deserialized, in poll order
RECURSIVE ValidOf(_)
ValidOf(log) ==
    IF log = <<>> THEN <<>>
    ELSE IF Head(log).ok THEN <<Head(log).msg>> \o ValidOf(Tail(log))
         ELSE ValidOf(Tail(log))

\* the polled messages that were skipped for a deserialization failure
SkippedOf(log) == {log[i].msg : i \in {j \in 1 .. Len(log) : ~log[j].ok}}

\* C1: within an iteration of run(), commit is called only after produce was
\* called for every aligned record of the batch, in order, and flush has
\* returned; the message committed is the last message of that very batch.
C1_CommitAfterProduceAndFlush ==
    \A k \in 1 .. Len(iterEvents) :
        iterEvents[k] = "commit" =>
            LET n == Len(messages) IN
            /\ k = n + 2
            /\ \A j \in 1 .. n : iterEvents[j] = "produce"
            /\ iterEvents[n + 1] = "flush"
            /\ Len(iterProduced) = n
            /\ \A j \in 1 .. n : iterProduced[j] = Envelope(results[j], messages[j])
            /\ iterCommit = <<messages[n]>>

\* C1 witness: a batch of two messages has been produced, flushed and committed
C1_Witness ==
    /\ pc = "metrics"
    /\ Len(messages) = 2
    /\ iterEvents = <<"produce", "produce", "flush", "commit">>

\* C2: when flush returned a nonzero remaining count for the batch, the
\* iteration does not commit the consumer offsets of that batch.
C2_NoCommitWhenFlushRemains ==
    flushRemaining > 0 => iterCommit = <<>>

\* C3: the committed position of a partition never passes the offset of a
\* deserialized message whose output record was not produced and handed to a
\* flush call.
C3_CommittedNeverPassesOwed ==
    \A m \in owed : committed[m.p] <= m.off

\* C4: when the processing call returned null, the iteration has produced
\* nothing, has called neither flush nor commit, has counted one api error and
\* is still inside the loop.
C4_NullDropsBatchAndCountsError ==
    (pc = "metrics" /\ apiRet.isNone) =>
        /\ iterEvents = <<>>
        /\ iterProduced = <<>>
        /\ iterCommit = <<>>
        /\ api_errors = apiErrors0 + 1

\* C5: for a batch of n >= 1 inputs and a non-null result list of length m the
\* aligned list has n entries: the first min(m, n) are the endpoint's results in
\* order, the remaining n - m (when m < n) are empty records.
C5_AlignedToInputCount ==
    (pc \in {"produce", "commit", "metrics"} /\ ~apiRet.isNone) =>
        LET n == Len(messages)
            m == Len(apiRet.items)
        IN  /\ n >= 1
            /\ Len(results) = n
            /\ \A i \in 1 .. n :
                  results[i] = IF i <= m THEN apiRet.items[i] ELSE EmptyRecord

\* C5 witness: one result came back for a batch of two, the list was padded
C5_Witness ==
    /\ pc = "produce"
    /\ ~apiRet.isNone
    /\ Len(messages) = 2
    /\ Len(apiRet.items) = 1
    /\ results = <<Rec(1), EmptyRecord>>

\* every response of the current call was a 503
All503(log) ==
    /\ log # <<>>
    /\ \A i \in 1 .. Len(log) : log[i].kind = "status" /\ log[i].status = 503

Other4xx(resp) ==
    resp.kind = "status" /\ resp.status >= 400 /\ resp.status < 500 /\ resp.status # 429

\* C7: a request is sent again only after a response with status 429, 500,
\* 502, 503 or 504 or after a connection-level failure; a response with any
\* other 4xx status ends the call, after exactly one attempt when it answers
\* the first request, and the call returns null.
C7_RetryOnlyOnRetryableStatus ==
    /\ \A i \in 1 .. Len(respLog) :
          (i < Len(respLog) \/ apiPc = "sending") =>
              \/ respLog[i].kind # "status"
              \/ respLog[i].status \in {429, 500, 502, 503, 504}
    /\ (respLog # <<>> /\ Other4xx(respLog[1])) =>
          /\ attempts = 1
          /\ apiPc = "returned"
          /\ callRet.isNone

\* C8: consume_batch holds exactly the polled messages that deserialized, in
\* poll order; each message that failed to deserialize is left out, counts one
\* deserialization error and no consumed message.
C8_BatchIsValidPolledInOrder ==
    (pc \in {"poll", "cb_returned"}) =>
        /\ messages = ValidOf(polled)
        /\ deserialization_errors = deser0 + (Len(polled) - Len(ValidOf(polled)))
        /\ messages_consumed = consumed0 + Len(ValidOf(polled))

\* C8 witness: a returned batch whose assembly went on after a skipped message
C8_Witness ==
    /\ pc = "cb_returned"
    /\ Len(polled) = 3
    /\ polled[1].ok /\ ~polled[2].ok /\ polled[3].ok
    /\ Len(messages) = 2

\* C9: once a batch commits, every message skipped for a deserialization
\* failure while the batch was assembled lies below the committed position of
\* its partition.
C9_SkippedBelowCommitted ==
    iterCommit # <<>> =>
        \A m \in SkippedOf(polled) : committed[m.p] > m.off

\* C10: consume_batch(n, t) returns at most n pairs, for every n >= 0.
C10_AtMostRequested ==
    (pc = "cb_returned" /\ reqSize # NoneArg) => Len(messages) <= reqSize

\* C11: once stop() has been invoked while run() is RUNNING, iter_batches
\* enters no further consume_batch, no processing call, produce or commit is
\* made for a batch yielded after the stop, and the batch that was being
\* handled when stop() arrived is handled to the end of its iteration.
C11_StopEndsAfterCurrentCycle ==
    /\ ~cycleAfterStop
    /\ pc \in MidIteration => ~yieldedAfterStop
    /\ (stopAt = "processing" /\ pc \notin MidIteration /\ pc # "metrics"
            /\ raised = "none")
          => completedAfterStop

\* C12: whichever way run() ends (stop, startup failure, exception inside the
\* loop), close() has run exactly once by then: consumer, producer and API
\* client were closed in that order, the final metrics came last, and no
\* component is still open; before run() ends through close() nothing of
\* close() has happened.
C12_CloseOnceInOrder ==
    /\ pc = "closed" =>
          /\ closeLog = <<"consumer", "producer", "api_client", "metrics">>
          /\ consumer # "open"
          /\ producer # "open"
          /\ session = "closed"
    /\ (pc \in RunningPcs \cup {"created", "connecting", "closing"}) =>
          closeLog = <<>>

\* C12 witness: run() ended on an exception raised inside the loop, with
\* consumer and producer connected before and closed now
C12_Witness ==
    /\ pc = "closed"
    /\ raised = "produce"
    /\ consumer = "closed"
    /\ producer = "flushed"
    /\ Len(closeLog) = 4

\* C13: when connect() failed (consumer connect, producer connect, or
\* wait_for_api returned false), run() goes straight to its cleanup and raises:
\* the loop is never entered, no message was polled, no processing call made,
\* nothing produced and no offset committed.
C13_StartupFailureDoesNothing ==
    raised \in ConnectFailures =>
        /\ pc \in {"closing", "closed"}
        /\ Delivered(pos) = 0
        /\ polled = <<>>
        /\ messages = <<>>
        /\ messages_consumed = 0
        /\ api_calls = 0
        /\ iterEvents = <<>>
        /\ iterProduced = <<>>
        /\ pending = 0
        /\ \A p \in Partitions : committed[p] = 0

\* C13 witness: run() has ended raising because wait_for_api returned false
C13_Witness ==
    /\ pc = "closed"
    /\ raised = "api_unavailable"
    /\ producer = "flushed"

\* C14: an exception raised while RUNNING (by a poll, by the handling of the
\* results, by produce or by commit) ends the loop at once; it reaches the
\* caller of run() only after close() has run in full, and no message of the
\* batch that was being assembled or handled is covered by a committed offset.
C14_LoopErrorReraisedUncommitted ==
    raised \in RunningErrors =>
        /\ pc \in {"closing", "closed"}
        /\ pc = "closed" =>
              closeLog = <<"consumer", "producer", "api_client", "metrics">>
        /\ pc = "closing" => closeLog = <<>>
        /\ \A i \in 1 .. Len(messages) :
              committed[messages[i].p] <= messages[i].off

\* C14 witness: commit raised for a produced batch and run() has ended
C14_Witness ==
    /\ pc = "closed"
    /\ raised = "commit"
    /\ Delivered(pos) = 2
    /\ \A p \in Partitions : committed[p] = 0

\* C15: when the endpoint answered a batch of n records with a list of n
\* results, flush returned 0 and no delivery failure was recorded, the
\* iteration has produced exactly n envelopes in input order, the i-th made
\* of the i-th result, the i-th input's objectId and candid (null when the
\* input has none) and the bridge name, and the committed position of the
\* last message's partition is one past that message.
C15_HealthyBatchProducedAndCommitted ==
    (/\ pc = "metrics"
     /\ apiRet.isList
     /\ Len(apiRet.items) = Len(messages)
     /\ flushRemaining = 0
     /\ ~iterFailed) =>
        LET n == Len(messages) IN
        /\ Len(iterProduced) = n
        /\ \A i \in 1 .. n :
              LET d == DataOf(messages[i]) IN
              /\ iterProduced[i].result = apiRet.items[i]
              /\ iterProduced[i].source.objectId =
                    (IF d.objectId.t = "absent" THEN Null ELSE d.objectId)
              /\ iterProduced[i].source.candid =
                    (IF d.candid.t = "absent" THEN Null ELSE d.candid)
              /\ iterProduced[i].bridge = "kafka-bridge"
        /\ iterCommit = <<messages[n]>>
        /\ committed[messages[n].p] = messages[n].off + 1

\* C15 witness: a batch of two messages from different partitions, two
\* results, everything delivered, committed
C15_Witness ==
    /\ pc = "metrics"
    /\ Len(messages) = 2
    /\ messages[1].p # messages[2].p
    /\ apiRet.isList
    /\ Len(apiRet.items) = 2
    /\ flushRemaining = 0
    /\ ~iterFailed
    /\ Len(iterProduced) = 2
    /\ iterCommit # <<>>

\* the current call_batch ended on an HTTP-successful response
LastResponseOk(log) ==
    /\ log # <<>>
    /\ log[Len(log)].kind = "status"
    /\ log[Len(log)].status < 400

\* C17: call_batch returns a list of records for every HTTP-successful
\* response body and null on every failure; what it returns is never anything
\* but null or a list.
C17_ReturnsListOrNull ==
    apiPc = "returned" =>
        /\ callRet.isNone \/ callRet.isList
        /\ LastResponseOk(respLog) => callRet.isList
        /\ ~LastResponseOk(respLog) => callRet.isNone

\* a field that carries a value: present, not null, not empty
HasValue(v) == v.t \notin {"absent", "null"} /\ v.s # ""

\* C16: the key handed over with a produced message is the source record's
\* objectId when it has one, else the string form of its candid when it has
\* one, else there is no key; for every combination of the two fields being
\* absent, null, empty, zero or a normal value.
C16_KeyByObjectIdThenCandid ==
    pwPc = "produced" =>
        IF HasValue(lastRec.objectId)
        THEN lastKey.t # "absent" /\ lastKey.s = lastRec.objectId.s
        ELSE IF HasValue(lastRec.candid)
        THEN lastKey.t # "absent" /\ lastKey.s = lastRec.candid.s
        ELSE lastKey.t = "absent"

\* the number of accepted messages in a given delivery state
CountOf(d, st) == Cardinality({i \in 1 .. Len(d) : d[i] = st})

\* C19: every message whose delivery was resolved was counted exactly once,
\* as produced or as a recorded delivery failure and never as both; when
\* flush has returned 0 no accepted message is left unresolved; and a batch
\* in which a delivery failure was recorded is still attempted to its end.
C19_FlushZeroResolvesEachOnce ==
    /\ messages_produced = CountOf(delivery, "delivered")
    /\ delivery_failures = CountOf(delivery, "failed")
    /\ (pwPc = "flushed" /\ flushRemaining = 0) =>
          \A i \in 1 .. Len(delivery) : delivery[i] \in {"delivered", "failed"}
    /\ (pwPc = "batch_returned" /\ delivery_failures > 0) =>
          Len(batchLog) = batchLen

\* C19 witness: flush returned 0 with three messages accepted, of which some
\* were delivered and some failed
C19_Witness ==
    /\ pwPc = "flushed"
    /\ flushRemaining = 0
    /\ Len(delivery) = 3
    /\ CountOf(delivery, "failed") >= 1
    /\ CountOf(delivery, "delivered") >= 1

\* C20: produce_batch attempts every record of the batch, one after the
\* other whatever happened to the earlier ones, and returns the number of
\* records whose produce call returned; a record whose produce raised is not
\* counted and does not end the call.
C20_BatchCountsQueuedOnly ==
    /\ pwPc = "in_batch" =>
          /\ Len(batchLog) <= batchLen
          /\ queued = CountOf(batchLog, "queued")
    /\ pwPc = "batch_returned" =>
          /\ Len(batchLog) = batchLen
          /\ batchRet = CountOf(batchLog, "queued")
          /\ batchRet + CountOf(batchLog, "raised") = batchLen

\* C20 witness: a batch of two whose first record raised and whose second
\* was queued returned 1
C20_Witness ==
    /\ pwPc = "batch_returned"
    /\ batchLen = 2
    /\ batchLog = <<"raised", "queued">>
    /\ batchRet = 1

\* C18 (as stated): the processing call is never made for an empty batch,
\* and the iteration over iter_batches has ended only when stop() had been
\* invoked before and cleared the running flag.
C18_EndsOnlyAfterStop ==
    /\ pc = "process" => messages # <<>>
    /\ (pc = "closing" /\ raised \notin ConnectFailures) => ~running

\* C18 (amended): the processing call is never made for an empty batch, and
\* unless an exception has left the loop (raised by a poll or while the batch
\* was handled) the iteration over iter_batches has ended only when stop()
\* had been invoked before.
C18_EndsOnlyAfterStopOrError ==
    /\ pc = "process" => messages # <<>>
    /\ pc \in {"loop_body", "process"} => Len(messages) >= 1
    /\ (pc = "closing" /\ raised = "none") => ~running

\* C18 witness: after a stop() that arrived during a poll cycle the iteration
\* has ended without an exception, messages having been consumed before
\* and an empty poll cycle having been passed over
C18_Witness ==
    /\ pc = "closing"
    /\ raised = "none"
    /\ stopAt = "polling"
    /\ messages = <<>>
    /\ Delivered(pos) >= 1

\* C21: produce_to_dlq never raises to its caller, whatever the state of the
\* producer, and nothing is enqueued when no dead-letter topic is configured.
C21_DlqNeverRaises ==
    /\ pwPc # "dlq_raised"
    /\ ~Truthy(dead_letter_topic) => delivery = <<>>

\* the conditions under which a configuration is invalid: a format outside
\* its allowed set, Avro chosen without its schema path, an empty API URL or
\* endpoint
NoPath(v) == v \in {Null, StrV("")}
InvalidConfig(c) ==
    \/ c.input_format \notin {"avro", "json", "auto"}
    \/ c.output_format \notin {"avro", "json"}
    \/ c.input_format = "avro" /\ NoPath(c.avro_schema_path)
    \/ c.output_format = "avro" /\ NoPath(c.output_avro_schema_path)
    \/ c.api_url = ""
    \/ c.api_endpoint = ""

\* C22: constructing the bridge with an invalid configuration raises from
\* validation with no consumer or producer connection opened and connect()
\* (which sends the first API request) never entered; a configuration that
\* is not invalid passes validation.
C22_InvalidConfigRaisesBeforeConnecting ==
    /\ (InvalidConfig(config) /\ pc # "unbuilt") =>
          /\ pc = "init_raised"
          /\ raised = "invalid_config"
          /\ consumer = "none"
          /\ producer = "none"
          /\ closeLog = <<>>
    /\ ~InvalidConfig(config) => raised # "invalid_config"

\* Avro output chosen without an output schema path, everything else in
\* order: construction raised from validation
C22_Witness ==
    /\ pc = "init_raised"
    /\ raised = "invalid_config"
    /\ config.input_format = "json"
    /\ config.output_format = "avro"
    /\ config.output_avro_schema_path = Null
    /\ config.api_url # ""
    /\ config.api_endpoint # ""

\* the tagged object a bytes value is written as
TaggedObject(bs) ==
    JsonObject([k \in {"_type", "_encoding", "_value"} |->
                   CASE k = "_type" -> JsonString(<<"b", "y", "t", "e", "s">>)
                     [] k = "_encoding" ->
                            JsonString(<<"b", "a", "s", "e", "6", "4">>)
                     [] k = "_value" -> JsonString(B64Encode(bs))])

\* every bytes field of the record is written as its tagged object
BytesFieldsTagged ==
    \A k \in DOMAIN record.m :
        record.m[k].t = "bytes" => wire.m[k] = TaggedObject(record.m[k].bs)

\* C23: deserialize(serialize(r)) == r for every record r built from null,
\* boolean, number, string, binary, mapping and sequence values, and a binary
\* field is written as the tagged object {_type: bytes, _encoding: base64,
\* _value: <base64 text>}.
C23_JsonRoundTrip ==
    /\ serPc \in {"serialized", "deserialized"} =>
          /\ wire # JsonRaised
          /\ BytesFieldsTagged
    /\ serPc = "deserialized" => restored = record

\* C24: stripping is idempotent; with the toggle on the result is the record
\* without its top-level keys cutoutScience, cutoutTemplate and
\* cutoutDifference, every other key unchanged; with the toggle off the
\* result is the record.
C24_StripIdempotentMinimal ==
    /\ serPc \in {"stripped", "stripped_twice"} =>
          IF skip_cutouts
          THEN /\ DOMAIN restored.m =
                     DOMAIN record.m \ {"cutoutScience", "cutoutTemplate",
                                         "cutoutDifference"}
               /\ \A k \in DOMAIN restored.m : restored.m[k] = record.m[k]
          ELSE restored = record
    /\ serPc = "stripped_twice" => again = restored

\* an alert with all three cutouts, a candid and a candidate was stripped
\* twice with the toggle on: candid and candidate are what is left, the
\* candidate still with its own cutoutScience key
C24_Witness ==
    /\ serPc = "stripped_twice"
    /\ skip_cutouts
    /\ DOMAIN record.m = {"cutoutScience", "cutoutTemplate",
                          "cutoutDifference", "candid", "candidate"}
    /\ DOMAIN again.m = {"candid", "candidate"}
    /\ "cutoutScience" \in DOMAIN again.m["candidate"].m

\* C25: a health_check call sends exactly one GET, returns true exactly when
\* the answer it got is status 200, and returns false when the request ended
\* in an exception.
C25_HealthCheckSingleGet ==
    apiPc = "health_returned" =>
        /\ attempts = 1
        /\ healthRet <=> (/\ respLog[Len(respLog)].kind = "status"
                          /\ respLog[Len(respLog)].status = 200)

\* C26: under every interleaving of the main loop's counter updates with the
\* delivery callbacks no increment is lost: messages_produced equals the
\* number of acknowledged deliveries whose callback has completed, and every
\* other counter equals the number of its completed increments.
C26_NoIncrementLost ==
    /\ messages_produced = recorded["messages_produced"]
    /\ messages_consumed = recorded["messages_consumed"]
    /\ api_calls = recorded["api_calls"]
    /\ api_errors = recorded["api_errors"]
    /\ deserialization_errors = recorded["deserialization_errors"]

\* both contexts have read a counter and not yet written it back, after
\* each has completed an earlier increment
C26_Witness ==
    /\ incr["main"].pc = "loaded"
    /\ incr["callback"].pc = "loaded"
    /\ messages_produced >= 1
    /\ messages_consumed >= 1

\* C27: the metrics are logged at least once for every 100 consumed
\* messages: whenever an iteration has ended, no multiple of 100 lies between
\* the count at the last log and the count now, whatever the batch lengths
\* and whether or not batches were dropped.
C27_LoggedEveryHundred ==
    pc = "iter_loop" => messages_consumed \div 100 = lastLogAt \div 100

\* C28: after a batch has been forwarded and committed, the committed
\* position of every partition that contributed a message to the batch is
\* past that partition's last message in the batch.
C28_EveryPartitionCommitted ==
    (pc = "metrics" /\ iterCommit # <<>>) =>
        \A i \in 1 .. Len(messages) :
            committed[messages[i].p] > messages[i].off

\* the text of a content whose blank lines have been left out
NonBlank(text) == {i \in 1 .. Len(text) : text[i] # <<>>}
WholeText(text) == TokensOf(text)

\* the lines of a content that parse as JSON on their own
ValidLines(text) == {i \in NonBlank(text) : LoadsTokens(text[i]).ok}

\* items holds, in order, the documents of the lines with index in S
RECURSIVE InLineOrder(_, _, _)
InLineOrder(text, S, items) ==
    IF S = {} THEN items = <<>>
    ELSE LET i == CHOOSE j \in S : \A k \in S : j <= k IN
         /\ items # <<>>
         /\ Head(items) = LoadsTokens(text[i]).val
         /\ InLineOrder(text, S \ {i}, Tail(items))

\* what the claim says a reader yields for a content
YieldsAsClaimed(text, items) ==
    IF NonBlank(text) = {} THEN items = <<>>
    ELSE IF LoadsTokens(WholeText(text)).ok
    THEN LET doc == LoadsTokens(WholeText(text)).val IN
         IF doc.t = "list" THEN items = doc.xs ELSE items = <<doc>>
    ELSE InLineOrder(text, ValidLines(text), items)

\* C29: for a content that parses as one JSON document _read_json_from_file
\* yields the elements of an array in order, or the document itself; for a
\* content that does not parse as a whole it yields every non-empty line that
\* parses, in order, skipping the others; an empty content yields nothing;
\* _read_json_from_stdin yields the same sequence for the same content.
C29_ReadJsonYields ==
    /\ fromFile.read => YieldsAsClaimed(content, fromFile.items)
    /\ (fromFile.read /\ fromStdin.read) => fromStdin.items = fromFile.items

\* both readers have read a content of an object line, a line that is no
\* JSON and a number line: the object and the number were yielded
C29_Witness ==
    /\ content = << <<"{...}">>, <<"oops">>, <<"1">> >>
    /\ fromFile.read
    /\ fromStdin.read
    /\ Len(fromFile.items) = 2
    /\ fromStdin.items = fromFile.items

\* the file behind the path opens and its first octets are the Avro magic
HasMagic ==
    /\ input.readable
    /\ Len(input.octets) >= 3
    /\ <<input.octets[1], input.octets[2], input.octets[3]>> = <<79, 98, 106>>

\* the path ends with .avro
HasAvroExtension ==
    /\ Len(input.name) >= 5
    /\ \A i \in 1 .. 5 :
           input.name[Len(input.name) - 5 + i] = <<".", "a", "v", "r", "o">>[i]

\* C30: is_avro_file returns true exactly when the given path ends with
\* .avro or the file's first bytes are the Avro magic 'Obj'; it returns false
\* for any other readable file, for an unreadable file whose path does not
\* end with .avro, and for stdin (None).
C30_IsAvroByNameOrMagic ==
    isAvro.asked =>
        /\ input.stdin => ~isAvro.ret
        /\ ~input.stdin => (isAvro.ret <=> (HasAvroExtension \/ HasMagic))

\* C30 as stated: in addition, false for every unreadable file
C30_UnreadableIsNeverAvro ==
    isAvro.asked =>
        /\ input.stdin => ~isAvro.ret
        /\ ~input.stdin => (isAvro.ret <=> (HasAvroExtension \/ HasMagic))
        /\ (~input.stdin /\ ~input.readable) => ~isAvro.ret

\* a path ending in .avro whose file does not open was answered true
C30_Witness ==
    /\ isAvro.asked
    /\ ~input.stdin
    /\ ~input.readable
    /\ HasAvroExtension
    /\ isAvro.ret

\* the module exposes a callable named pre_processing: at module level, or
\* as a method of a public class or instance
ExposesPreProcessing ==
    /\ preprocessing.exists
    /\ ~preprocessing.raises
    /\ \/ preprocessing.attrs[3] \in {"function", "class_ok", "class_args",
                                       "class_attr", "class_plain"}
       \/ \E i \in {1, 3, 4} :
             preprocessing.attrs[i] \in {"class_ok", "class_args", "instance"}

\* C31: load_preprocessing raises FileNotFoundError when the preprocessing
\* file does not exist and ValueError when the loaded module exposes no
\* callable named pre_processing; in every other case it returns a callable,
\* and a module-level pre_processing function takes precedence over a class
\* method.
C31_LoadPreprocessing ==
    loaded # NotLoaded =>
        /\ ~preprocessing.exists => loaded.out = "FileNotFoundError"
        /\ (preprocessing.exists /\ ~ExposesPreProcessing)
              => loaded.out = "ValueError"
        /\ ExposesPreProcessing => loaded.out = "callable"
        /\ (ExposesPreProcessing /\ preprocessing.attrs[3] = "function")
              => loaded.how = "function"

\* stop() has been invoked since run() started
StopRequested == pc # "created" /\ ~running

\* C32: a stop request is never lost: if stop() is invoked at any moment
\* after run() has started (during CONNECTING, before iter_batches has begun,
\* or while no inbound message ever arrives), the bridge eventually leaves its
\* loop and reaches CLOSED.
C32_StopNeverLost == [](StopRequested => <>(pc = "closed"))

CallReturns == apiPc = "sending" /\ apiPc' = "returned"

\* C34: every invocation of call_single, call_batch or
\* call_mlflow_invocations returns to its caller without raising, increments
\* api_calls by exactly one, and increments api_errors by exactly one if and
\* only if it returns null; hence api_errors <= api_calls in every reachable
\* state.
C34_ErrorCountedIffNull ==
    [][/\ CallReturns =>
            /\ api_calls' = api_calls + 1
            /\ api_errors' \in {api_errors, api_errors + 1}
            /\ (api_errors' = api_errors + 1) <=> (callRet' = NoneVal)
       /\ api_errors' <= api_calls']_vars

\* the payload is valid UTF-8 JSON
ValidJson == payload.utf8 /\ payload.json # NotJson

\* the JSON decoding of the payload, cutouts left out where they are skipped
JsonDecoding ==
    LET v == JsonDeserialize(payload.json) IN
    IF serializer.skip_cutouts /\ v.t = "dict"
    THEN PyDict([k \in DOMAIN v.m \ {"cutoutScience", "cutoutTemplate",
                                      "cutoutDifference"} |-> v.m[k]])
    ELSE v

\* C35: in auto input mode, deserialize returns the JSON decoding whenever
\* the bytes are valid UTF-8 JSON, otherwise the Avro decoding when an Avro
\* schema is configured, otherwise it fails with an error; in every mode a
\* payload that cannot be turned into a mapping makes deserialize raise, so
\* that the consumer puts no value into a batch that is not a mapping.
C35_AutoJsonFirstMappingsOnly ==
    decoded # NotDecoded =>
        /\ (serializer.input_format = "auto" /\ ValidJson
                /\ JsonDecoding.t = "dict")
              => decoded = JsonDecoding
        /\ (serializer.input_format = "auto" /\ ~ValidJson
                /\ serializer.avro /\ payload.avro # PyRaised)
              => decoded.t = "dict"
        /\ (serializer.input_format = "auto" /\ ~ValidJson /\ ~serializer.avro)
              => decoded = PyRaised
        /\ decoded # PyRaised => decoded.t = "dict"
        /\ \A i \in 1 .. Len(taken) : taken[i].t = "dict"

\* the messages of the batch whose pre_processing call has raised
FailedSoFar ==
    {i \in 1 .. kpIdx : ~kpBatch[i].ok}

\* C36: in KafkaProcessor._process_batch, a message whose pre_processing
\* call raised is neither produced nor covered by the commit issued for its
\* batch: the committed position never passes such a message, whatever its
\* place among the succeeding messages of the batch.
C36_FailedNeitherProducedNorCommitted ==
    \A i \in FailedSoFar :
        /\ \A k \in 1 .. Len(kpProduced) :
              kpProduced[k] # [p |-> kpBatch[i].p, off |-> kpBatch[i].off]
        /\ kpCommitted[kpBatch[i].p] <= kpBatch[i].off

\* PENDING -> RUNNING -> SUCCESS or FAILED
StatusRank(status) ==
    CASE status = "pending" -> 0
      [] status = "running" -> 1
      [] OTHER -> 2
Finished(rec) == rec.status \in {"success", "failed"}

\* C37: a build record's status only moves forward along PENDING -> RUNNING
\* -> SUCCESS or FAILED: it never leaves SUCCESS or FAILED, never returns to
\* PENDING, and finished_at is set exactly when the status is SUCCESS or
\* FAILED; every started build eventually reaches SUCCESS or FAILED.
C37_StatusForwardAndFinished ==
    /\ [][\A id \in DOMAIN builds \cap DOMAIN builds' :
            /\ StatusRank(builds'[id].status) >= StatusRank(builds[id].status)
            /\ Finished(builds[id]) => builds'[id].status = builds[id].status
         ]_vars
    /\ [](\A id \in DOMAIN builds :
            builds[id].finished_at <=> Finished(builds[id]))
    /\ \A id \in BuildIds :
          [](id \in DOMAIN task =>
                <>(id \in DOMAIN builds /\ Finished(builds[id])))

\* C38: deleting a build record while its background build is still pending
\* or running leaves the service consistent: run_build finishes without an
\* unhandled error, and the deleted record does not reappear in the builds
\* store.
C38_DeleteLeavesServiceConsistent ==
    /\ \A id \in DOMAIN task : task[id] # "key_error"
    /\ \A id \in deleted : id \notin DOMAIN builds

Handed(b) == b.outcome \in {"built", "failed"}

\* C39: the files in the build context's preprocessing directory when docker
\* build runs are exactly the files downloaded for that build's run_id, with
\* nothing left over from another build
C39_ContextHoldsOwnRunOnly ==
    Handed(lastBuild) => lastBuild.context = Downloaded(lastBuild.run)

====
